---- MODULE Spec2Model ----
(***************************************************************************)
(* A model of dbapi_opentracing: the traced connection and cursor wrappers *)
(* (tracing.py), their psycopg2 subclass variant (psycopg2_tracing.py) and *)
(* the registries of generated classes.                                    *)
(*                                                                         *)
(* Text is a sequence of one-character strings, a byte string a sequence   *)
(* of integers 0..255.  A Python object passed as an argument is a record  *)
(* [kind, val, parts].  One wrapper call is one action; what it did is     *)
(* kept as the ordered list of its effects on the tracer and on the        *)
(* underlying driver (trace) and as what its caller received (result).     *)
(***************************************************************************)
EXTENDS Integers, Sequences, FiniteSets, TLC

VARIABLES
    variant,      \* "proxy" (ConnectionTracing) or "subclass" (PsycopgConnectionTracing)
    conn,         \* the traced connection's flags and static tags
    cur,          \* the traced cursor last obtained from the connection
    earlier,      \* a traced cursor obtained before it that the caller still holds
    rowcount,     \* the underlying cursor's rowcount attribute
    scope,        \* TRUE inside the connection's with-block
    call,         \* the wrapper call just made: operation, arguments, driver behaviour
    trace,        \* the effects of that call, in order
    result,       \* what that call returned or raised
    blockOutcome, \* what the code after a with-block sees
    active,       \* names of the spans the tracer still holds open
    registry,     \* _cursor_factory_classes and _connection_factory_classes
    lock,         \* holder of _cursor_factory_lock and of _connection_factory_lock
    thread,       \* each thread's position inside __new__
    defined,      \* every combined class ever defined; a class object is its index
    requests      \* number of calls of PsycopgCursorTracing / PsycopgConnectionTracing begun

tracingVars == <<variant, conn, cur, earlier, rowcount, scope, call, trace, result, blockOutcome, active>>

cacheVars == <<registry, lock, thread, defined, requests>>

vars == <<variant, conn, cur, earlier, rowcount, scope, call, trace, result, blockOutcome, active,
          registry, lock, thread, defined, requests>>

----------------------------------------------------------------------------
\* Bounds of the model.

\* The underlying cursor reports a rowcount in -1..MaxRowCount.
MaxRowCount == 1

\* Threads that call PsycopgCursorTracing / PsycopgConnectionTracing concurrently.
NumThreads == 2

\* Calls of PsycopgCursorTracing / PsycopgConnectionTracing in one run.
MaxRequests == 3

----------------------------------------------------------------------------
\* Python values.

Str(t) == [kind |-> "str", val |-> t, parts |-> <<>>]

Bytes(b) == [kind |-> "bytes", val |-> b, parts |-> <<>>]

\* psycopg2.sql.Composed: .seq is a list of psycopg2.sql.SQL parts, each with .string
Composed(ps) == [kind |-> "Composed", val |-> <<>>, parts |-> ps]

\* psycopg2.sql.SQL: accepted by the driver, with .string but without .split
SQL(t) == [kind |-> "SQL", val |-> t, parts |-> <<>>]

\* a parameter tuple
Params == [kind |-> "params", val |-> <<"1">>, parts |-> <<>>]

\* the traced cursor itself, passed as the first argument of an unbound method
Self == [kind |-> "self", val |-> <<>>, parts |-> <<>>]

NoExc == [cls |-> "", msg |-> "", isException |-> FALSE]

\* errors the driver raises: two derived from Exception, one derived from BaseException only
IntegrityError == [cls |-> "IntegrityError", msg |-> "duplicate key", isException |-> TRUE]

SomeException == [cls |-> "SomeException", msg |-> "message", isException |-> TRUE]

KeyboardInterrupt == [cls |-> "KeyboardInterrupt", msg |-> "", isException |-> FALSE]

\* errors of the wrapper's own statements
IndexError == [cls |-> "IndexError", msg |-> "tuple index out of range", isException |-> TRUE]

AttributeError == [cls |-> "AttributeError", msg |-> "object has no attribute", isException |-> TRUE]

Returned(v) == [kind |-> "return", val |-> v, exc |-> NoExc]

Raised(e) == [kind |-> "raise", val |-> "None", exc |-> e]

NoResult == [kind |-> "none", val |-> "None", exc |-> NoExc]

\* bool(v) of a returned value
Truthy(v) == v \notin {"None", "False"}

----------------------------------------------------------------------------
\* bytes.decode('utf8', 'replace') and str.split(' ')[0]

ReplacementChar == "U+FFFD"

\* the character of an ASCII code
Chr(b) ==
    CASE b = 9 -> "\t"
      [] b = 10 -> "\n"
      [] b = 32 -> " "
      [] b = 97 -> "a"
      [] b = 98 -> "b"
      [] b = 112 -> "p"
      [] OTHER -> "U+" \o ToString(b)

IsContinuation(b) == b >= 128 /\ b <= 191

\* One- and two-byte sequences are decoded; a byte that starts no valid sequence
\* (a stray continuation byte, 0xC0, 0xC1, 0xF5..0xFF, a lead byte whose continuation
\* is missing) becomes U+FFFD and decoding resumes at the next byte.
RECURSIVE Decode(_)
Decode(b) ==
    IF b = <<>> THEN <<>>
    ELSE IF b[1] < 128 THEN <<Chr(b[1])>> \o Decode(Tail(b))
    ELSE IF b[1] >= 194 /\ b[1] <= 223 /\ Len(b) >= 2 /\ IsContinuation(b[2])
         THEN <<"U+" \o ToString((b[1] - 192) * 64 + (b[2] - 128))>> \o Decode(Tail(Tail(b)))
    ELSE <<ReplacementChar>> \o Decode(Tail(b))

\* arg.split(' ')[0]: the text before the first space character
RECURSIVE SplitFirst(_)
SplitFirst(t) ==
    IF t = <<>> \/ t[1] = " " THEN <<>>
    ELSE <<t[1]>> \o SplitFirst(Tail(t))

\* ''.join of the parts of a Composed (as_string of SQL parts)
RECURSIVE Join(_)
Join(ps) ==
    IF ps = <<>> THEN <<>> ELSE ps[1] \o Join(Tail(ps))

----------------------------------------------------------------------------
\* Operation namer and statement normalizer.

Ok(v) == [ok |-> TRUE, val |-> v, exc |-> NoExc]

Fail(e) == [ok |-> FALSE, val |-> Str(<<>>), exc |-> e]

\* _operation_name(caller, func, statement=''): u'{}.{}({})'.format(...)
_operation_name(class_name, operation_name, statement) ==
    LET text == IF statement.kind = "bytes" THEN Decode(statement.val) ELSE statement.val
    IN  <<class_name, ".", operation_name, "(">> \o text \o <<")">>

\* arg.split(' ')[0]; an object that is no text has no split attribute
Split(arg) ==
    IF arg.kind = "str" THEN Ok(Str(SplitFirst(arg.val))) ELSE Fail(AttributeError)

\* Cursor._get_statement(args): args[0] is the statement
Cursor_get_statement(args) ==
    IF Len(args) < 1 THEN Fail(IndexError)
    ELSE IF args[1].kind = "bytes" THEN Split(Str(Decode(args[1].val)))
    ELSE Split(args[1])

\* _PsycopgCursorTracing._get_statement(args): args[0] is the cursor, args[1] the statement
Psycopg_get_statement(args) ==
    IF Len(args) < 2 THEN Fail(IndexError)
    ELSE IF args[2].kind = "bytes" THEN Split(Str(Decode(args[2].val)))
    ELSE IF args[2].kind = "Composed"
         THEN IF Len(args[2].parts) > 0 THEN Split(Str(args[2].parts[1])) ELSE Split(Str(<<>>))
    ELSE Split(args[2])

\* _Cursor._format_query(query)
_format_query(query) ==
    IF query.kind = "bytes" THEN Str(Decode(query.val)) ELSE query

\* Cursor._get_query(args)
Cursor_get_query(args) == _format_query(args[1])

\* _PsycopgCursorTracing._get_query(args)
Psycopg_get_query(args) ==
    IF args[2].kind = "Composed" THEN _format_query(Str(Join(args[2].parts)))
    ELSE _format_query(args[2])

_get_statement(v, args) ==
    IF v = "proxy" THEN Cursor_get_statement(args) ELSE Psycopg_get_statement(args)

_get_query(v, args) ==
    IF v = "proxy" THEN Cursor_get_query(args) ELSE Psycopg_get_query(args)

----------------------------------------------------------------------------
\* Effects of a wrapper call, in the order they happen.

\* tracer.start_active_span(operation_name)
StartSpan(name) == [e |-> "start", name |-> name]

\* span.set_tag(key, value)
SetTag(k, v) == [e |-> "set_tag", k |-> k, v |-> v]

\* the span is finished when the with-block of its scope is left
FinishSpan == [e |-> "finish"]

\* reading self.rowcount
ReadRowcount(rc) == [e |-> "rowcount", v |-> rc]

\* An invocation of the underlying driver.  func is bound (self.__wrapped__.execute) or
\* unbound (self._cursor_factory.execute, first argument the cursor itself).
Invoke(func, args, kwargs) ==
    IF func.bound
    THEN [e |-> "call", op |-> func.op, recv |-> "wrapped", args |-> args, kwargs |-> kwargs]
    ELSE [e |-> "call", op |-> func.op, recv |-> args[1].kind, args |-> Tail(args), kwargs |-> kwargs]

\* opentracing.ext.tags
DATABASE_TYPE == "db.type"

SPAN_KIND == "span.kind"

SPAN_KIND_RPC_CLIENT == "client"

DATABASE_STATEMENT == "db.statement"

ERROR == "error"

ROWS_PRODUCED == "db.rows_produced"

\* for tag, value in self._self_span_tags.items(): span.set_tag(tag, value)
RECURSIVE StaticTags(_)
StaticTags(span_tags) ==
    IF span_tags = <<>> THEN <<>>
    ELSE <<SetTag(span_tags[1].k, span_tags[1].v)>> \o StaticTags(Tail(span_tags))

\* Faulty variant of ErrorTags: the sfx.error.kind tag is forgotten.
ErrorTags_NoKind(e) ==
    << SetTag(ERROR, TRUE),
       SetTag("sfx.error.message", e.msg),
       SetTag("sfx.error.object", "<class '" \o e.cls \o "'>"),
       SetTag("sfx.error.stack", <<"Traceback (most recent call last):", e.cls, e.msg>>) >>

\* the except branch: the five error tags
ErrorTags(e) ==
    << SetTag(ERROR, TRUE),
       SetTag("sfx.error.message", e.msg),
       SetTag("sfx.error.object", "<class '" \o e.cls \o "'>"),
       SetTag("sfx.error.kind", e.cls),
       SetTag("sfx.error.stack", <<"Traceback (most recent call last):", e.cls, e.msg>>) >>

\* except Exception as e: ...; raise.  An error that is no Exception passes untagged.
OnRaise(e) ==
    IF e.isException THEN ErrorTags(e) ELSE <<>>

\* Faulty variant of CursorAfterCall: db.rows_produced is the rowcount the cursor had
\* before the call.
CursorAfterCall_StaleRowcount(env) ==
    IF env.kind = "raise"
    THEN OnRaise(env.exc) \o <<FinishSpan>>
    ELSE <<ReadRowcount(rowcount), SetTag(ROWS_PRODUCED, rowcount), FinishSpan>>

\* Faulty variant of CursorAfterCall: the span is finished by hand after the tags, so an
\* error leaves it open.
CursorAfterCall_OpenOnRaise(env) ==
    IF env.kind = "raise"
    THEN OnRaise(env.exc)
    ELSE <<ReadRowcount(env.rc), SetTag(ROWS_PRODUCED, env.rc), FinishSpan>>

\* _Cursor._traced_execution, from the call of func to the end of the with-block.
\* env is what the driver does: [kind, val, exc, rc], rc the rowcount it leaves.
CursorAfterCall(env) ==
    IF env.kind = "raise"
    THEN OnRaise(env.exc) \o <<FinishSpan>>
    ELSE <<ReadRowcount(env.rc), SetTag(ROWS_PRODUCED, env.rc), FinishSpan>>

\* _Cursor._traced_execution, from start_active_span to the static tags
CursorBeforeCall(name, query, span_tags) ==
    << StartSpan(name),
       SetTag(DATABASE_TYPE, "sql"),
       SetTag(SPAN_KIND, SPAN_KIND_RPC_CLIENT),
       SetTag(DATABASE_STATEMENT, query) >> \o StaticTags(span_tags)

Outcome(env) ==
    IF env.kind = "raise" THEN Raised(env.exc) ELSE Returned(env.val)

\* Faulty variant of Cursor_traced_execution: self.rowcount is read, and db.rows_produced
\* set, before func is called.
Cursor_traced_execution_EarlyRowcount(v, self, func, args, kwargs, env) ==
    LET statement == _get_statement(v, args)
    IN  IF ~statement.ok
        THEN [trace |-> <<>>, result |-> Raised(statement.exc)]
        ELSE [trace |-> CursorBeforeCall(_operation_name(self.cls, func.op, statement.val),
                                         _get_query(v, args), self.span_tags)
                        \o <<ReadRowcount(rowcount), SetTag(ROWS_PRODUCED, rowcount)>>
                        \o <<Invoke(func, args, kwargs)>>
                        \o (IF env.kind = "raise" THEN OnRaise(env.exc) ELSE <<>>)
                        \o <<FinishSpan>>,
              result |-> Outcome(env)]

\* Faulty variant of Cursor_traced_execution: the static tags are applied last, after
\* db.rows_produced or the error tags.
Cursor_traced_execution_StaticLast(v, self, func, args, kwargs, env) ==
    LET statement == _get_statement(v, args)
    IN  IF ~statement.ok
        THEN [trace |-> <<>>, result |-> Raised(statement.exc)]
        ELSE [trace |-> CursorBeforeCall(_operation_name(self.cls, func.op, statement.val),
                                         _get_query(v, args), <<>>)
                        \o <<Invoke(func, args, kwargs)>>
                        \o (IF env.kind = "raise" THEN OnRaise(env.exc)
                            ELSE <<ReadRowcount(env.rc), SetTag(ROWS_PRODUCED, env.rc)>>)
                        \o StaticTags(self.span_tags)
                        \o <<FinishSpan>>,
              result |-> Outcome(env)]

\* _Cursor._traced_execution(self, func, *args, **kwargs)
Cursor_traced_execution(v, self, func, args, kwargs, env) ==
    LET statement == _get_statement(v, args)
    IN  IF ~statement.ok
        THEN [trace |-> <<>>, result |-> Raised(statement.exc)]
        ELSE [trace |-> CursorBeforeCall(_operation_name(self.cls, func.op, statement.val),
                                         _get_query(v, args), self.span_tags)
                        \o <<Invoke(func, args, kwargs)>>
                        \o CursorAfterCall(env),
              result |-> Outcome(env)]

\* Faulty variant of Untraced: the return statement is forgotten.
Untraced_NoReturn(func, args, kwargs, env) ==
    [trace |-> <<Invoke(func, args, kwargs)>>,
     result |-> IF env.kind = "raise" THEN Raised(env.exc) ELSE Returned("None")]

\* return self.__wrapped__.execute(*args, **kwargs)
Untraced(func, args, kwargs, env) ==
    [trace |-> <<Invoke(func, args, kwargs)>>, result |-> Outcome(env)]

\* Cursor.execute / executemany / callproc and _PsycopgCursorTracing.execute / ...
CursorOp(v, self, op, args, kwargs, env) ==
    IF v = "proxy"
    THEN IF ~self[op]
         THEN Untraced([op |-> op, bound |-> TRUE], args, kwargs, env)
         ELSE Cursor_traced_execution(v, self, [op |-> op, bound |-> TRUE], args, kwargs, env)
    ELSE IF ~self[op]
         THEN Untraced([op |-> op, bound |-> FALSE], <<Self>> \o args, kwargs, env)
         ELSE Cursor_traced_execution(v, self, [op |-> op, bound |-> FALSE], <<Self>> \o args, kwargs, env)

----------------------------------------------------------------------------
\* Traced connection.

\* Faulty variant of ConnBeforeCall: the static tags are not set on connection spans.
ConnBeforeCall_NoStatic(name, span_tags) ==
    << StartSpan(name),
       SetTag(DATABASE_TYPE, "sql"),
       SetTag(SPAN_KIND, SPAN_KIND_RPC_CLIENT) >>

\* Faulty variant of ConnBeforeCall: the operation name is tagged as db.statement.
ConnBeforeCall_Statement(name, span_tags) ==
    << StartSpan(name),
       SetTag(DATABASE_TYPE, "sql"),
       SetTag(SPAN_KIND, SPAN_KIND_RPC_CLIENT),
       SetTag(DATABASE_STATEMENT, Str(name)) >> \o StaticTags(span_tags)

\* _ConnectionTracing._traced_execution, from start_active_span to the static tags
ConnBeforeCall(name, span_tags) ==
    << StartSpan(name),
       SetTag(DATABASE_TYPE, "sql"),
       SetTag(SPAN_KIND, SPAN_KIND_RPC_CLIENT) >> \o StaticTags(span_tags)

\* Faulty variant of ConnAfterCall: the call of func is not wrapped in try/except, an
\* error leaves the span untagged.
ConnAfterCall_NoErrorTags(env) ==
    <<FinishSpan>>

\* _ConnectionTracing._traced_execution, from the call of func to the end of the with-block
ConnAfterCall(env) ==
    IF env.kind = "raise" THEN OnRaise(env.exc) \o <<FinishSpan>> ELSE <<FinishSpan>>

\* Faulty variant of Conn_traced_execution: the value of func is not returned.
Conn_traced_execution_NoReturn(self, operation_name, func, args, kwargs, env) ==
    [trace |-> ConnBeforeCall(operation_name, self.span_tags)
               \o <<Invoke(func, args, kwargs)>>
               \o ConnAfterCall(env),
     result |-> IF env.kind = "raise" THEN Raised(env.exc) ELSE Returned("None")]

\* _ConnectionTracing._traced_execution(self, operation_name, func, *args, **kwargs)
Conn_traced_execution(self, operation_name, func, args, kwargs, env) ==
    [trace |-> ConnBeforeCall(operation_name, self.span_tags)
               \o <<Invoke(func, args, kwargs)>>
               \o ConnAfterCall(env),
     result |-> Outcome(env)]

\* self._self_commit_operation_name / self._commit_operation_name
commit_operation_name(self) == _operation_name(self.cls, "commit", Str(<<>>))

\* self._self_rollback_operation_name / self._rollback_operation_name
rollback_operation_name(self) == _operation_name(self.cls, "rollback", Str(<<>>))

\* ConnectionTracing.commit and _PsycopgConnectionTracing.commit
Commit(v, self, env) ==
    IF v = "proxy"
    THEN IF ~self.commit
         THEN Untraced([op |-> "commit", bound |-> TRUE], <<>>, <<>>, env)
         ELSE Conn_traced_execution(self, commit_operation_name(self),
                                    [op |-> "commit", bound |-> TRUE], <<>>, <<>>, env)
    ELSE IF ~self.commit
         THEN Untraced([op |-> "commit", bound |-> FALSE], <<Self>>, <<>>, env)
         ELSE Conn_traced_execution(self, commit_operation_name(self),
                                    [op |-> "commit", bound |-> FALSE], <<Self>>, <<>>, env)

\* ConnectionTracing.rollback and _PsycopgConnectionTracing.rollback
Rollback(v, self, env) ==
    IF v = "proxy"
    THEN IF ~self.rollback
         THEN Untraced([op |-> "rollback", bound |-> TRUE], <<>>, <<>>, env)
         ELSE Conn_traced_execution(self, rollback_operation_name(self),
                                    [op |-> "rollback", bound |-> TRUE], <<>>, <<>>, env)
    ELSE IF ~self.rollback
         THEN Untraced([op |-> "rollback", bound |-> FALSE], <<Self>>, <<>>, env)
         ELSE Conn_traced_execution(self, rollback_operation_name(self),
                                    [op |-> "rollback", bound |-> FALSE], <<Self>>, <<>>, env)

\* the (exc, value, tb) triple handed to __exit__; NoExc when the block ended normally
ExcInfo(exc) == [kind |-> "excinfo", val |-> <<exc.cls, exc.msg>>, parts |-> <<>>]

\* Faulty variant of ConnectionTracing.__exit__: both paths are decided by trace_commit.
ConnectionTracing__exit___CommitFlag(self, exc, env) ==
    IF ~self.commit
    THEN Untraced([op |-> "__exit__", bound |-> TRUE], <<ExcInfo(exc)>>, <<>>, env)
    ELSE Conn_traced_execution(self,
                               IF exc # NoExc THEN rollback_operation_name(self)
                               ELSE commit_operation_name(self),
                               [op |-> "__exit__", bound |-> TRUE], <<ExcInfo(exc)>>, <<>>, env)

\* ConnectionTracing.__exit__(self, exc, value, tb)
ConnectionTracing__exit__(self, exc, env) ==
    IF exc # NoExc
    THEN IF ~self.rollback
         THEN Untraced([op |-> "__exit__", bound |-> TRUE], <<ExcInfo(exc)>>, <<>>, env)
         ELSE Conn_traced_execution(self, rollback_operation_name(self),
                                    [op |-> "__exit__", bound |-> TRUE], <<ExcInfo(exc)>>, <<>>, env)
    ELSE IF ~self.commit
         THEN Untraced([op |-> "__exit__", bound |-> TRUE], <<ExcInfo(exc)>>, <<>>, env)
         ELSE Conn_traced_execution(self, commit_operation_name(self),
                                    [op |-> "__exit__", bound |-> TRUE], <<ExcInfo(exc)>>, <<>>, env)

\* The combined class inherits __exit__ from the underlying connection class, which
\* rolls back or commits through self: if exc: return self.rollback(); return self.commit()
Underlying__exit__(self, exc, env) ==
    IF exc # NoExc THEN Rollback("subclass", self, env) ELSE Commit("subclass", self, env)

\* the __exit__ a with-statement finds on the traced connection
Conn__exit__(v, self, exc, env) ==
    IF v = "proxy" THEN ConnectionTracing__exit__(self, exc, env)
    ELSE Underlying__exit__(self, exc, env)

\* The with-statement after __exit__: an error raised by __exit__ replaces the block's;
\* the block's error continues unless __exit__ returned a true value.
WithExit(exc, exited) ==
    IF exited.kind = "raise" THEN Raised(exited.exc)
    ELSE IF exc # NoExc /\ ~Truthy(exited.val) THEN Raised(exc)
    ELSE Returned("None")

\* kwargs.pop(key, default)
Pop(kwargs, key, default) ==
    IF key \in DOMAIN kwargs THEN kwargs[key] ELSE default

\* kwargs after the pops
Remaining(kwargs, keys) ==
    [k \in (DOMAIN kwargs) \ keys |-> kwargs[k]]

TraceFlagKeys == {"trace_execute", "trace_executemany", "trace_callproc"}

\* name of the underlying cursor class
CursorClassName == "cursor"

\* name of the underlying connection class
ConnectionClassName == "connection"

\* Faulty variant of NewCursor: the call-site overrides are dropped, the cursor takes the
\* connection's flags.
NewCursor_NoOverrides(self, kwargs) ==
    [exists |-> TRUE,
     execute |-> self.execute,
     executemany |-> self.executemany,
     callproc |-> self.callproc,
     span_tags |-> self.span_tags,
     cls |-> CursorClassName]

\* ConnectionTracing.cursor / _PsycopgConnectionTracing.cursor: the cursor it returns
NewCursor(self, kwargs) ==
    [exists |-> TRUE,
     execute |-> Pop(kwargs, "trace_execute", self.execute),
     executemany |-> Pop(kwargs, "trace_executemany", self.executemany),
     callproc |-> Pop(kwargs, "trace_callproc", self.callproc),
     span_tags |-> self.span_tags,
     cls |-> CursorClassName]

\* Faulty variant of CursorObjects: the effective flags are stored on the connection.
CursorObjects_StoresFlags(self, held, kwargs) ==
    [conn |-> [self EXCEPT !.execute = Pop(kwargs, "trace_execute", self.execute),
                           !.executemany = Pop(kwargs, "trace_executemany", self.executemany),
                           !.callproc = Pop(kwargs, "trace_callproc", self.callproc)],
     earlier |-> held,
     cur |-> NewCursor(self, kwargs)]

\* What cursor() leaves behind: the connection, and the cursors the caller already
\* holds, as they were (the pops bind locals only), and one new traced cursor.
CursorObjects(self, held, kwargs) ==
    [conn |-> self, earlier |-> held, cur |-> NewCursor(self, kwargs)]

\* ConnectionTracing.cursor calls the underlying cursor(); _PsycopgConnectionTracing.cursor
\* instantiates the combined cursor class, whose constructor runs the underlying one
Cursor_(v, self, kwargs) ==
    IF v = "proxy"
    THEN [trace |-> <<Invoke([op |-> "cursor", bound |-> TRUE], <<>>,
                             Remaining(kwargs, TraceFlagKeys))>>,
          result |-> Returned("cursor")]
    ELSE [trace |-> <<Invoke([op |-> "__init__", bound |-> FALSE], <<Self>>,
                             Remaining(kwargs, TraceFlagKeys))>>,
          result |-> Returned("cursor")]

NoCursor ==
    [exists |-> FALSE, execute |-> FALSE, executemany |-> FALSE, callproc |-> FALSE,
     span_tags |-> <<>>, cls |-> CursorClassName]

----------------------------------------------------------------------------
\* Reading a trace.

SetKey(f, k, v) == [x \in (DOMAIN f) \cup {k} |-> IF x = k THEN v ELSE f[x]]

\* The spans of a trace, in the order they were started; set_tag and finish act on
\* the span started last.
RECURSIVE SpansOf(_, _)
SpansOf(events, spans) ==
    IF events = <<>> THEN spans
    ELSE LET ev == events[1]
             n == Len(spans)
         IN  IF ev.e = "start"
             THEN SpansOf(Tail(events), Append(spans, [name |-> ev.name, tags |-> <<>>, finished |-> 0]))
             ELSE IF ev.e = "set_tag" /\ n > 0
             THEN SpansOf(Tail(events), [spans EXCEPT ![n].tags = SetKey(@, ev.k, ev.v)])
             ELSE IF ev.e = "finish" /\ n > 0
             THEN SpansOf(Tail(events), [spans EXCEPT ![n].finished = @ + 1])
             ELSE SpansOf(Tail(events), spans)

Spans(events) == SpansOf(events, <<>>)

IsCall(ev) == ev.e = "call"

\* the invocations of the underlying driver
Calls(events) == SelectSeq(events, IsCall)

IsOpen(span) == span.finished = 0

\* names of the spans a trace leaves unfinished
RECURSIVE Names(_)
Names(spans) ==
    IF spans = <<>> THEN <<>> ELSE <<spans[1].name>> \o Names(Tail(spans))

OpenSpans(events) == Names(SelectSeq(Spans(events), IsOpen))

----------------------------------------------------------------------------
\* Inputs of the wrapper calls.

Text_ab_p == <<"a", "b", " ", "p">>

\* how a caller passes the statement or procedure name
CallForms ==
    { [args |-> <<Str(Text_ab_p)>>, kwargs |-> <<>>],
      [args |-> <<Str(Text_ab_p), Params>>, kwargs |-> <<>>],
      [args |-> <<Bytes(<<97, 255, 32, 98>>)>>, kwargs |-> <<>>],
      [args |-> <<>>, kwargs |-> [k \in {"query"} |-> Str(Text_ab_p)]],
      [args |-> <<Composed(<< <<"a", " ">>, <<"b">> >>)>>, kwargs |-> <<>>],
      [args |-> <<Composed(<<>>)>>, kwargs |-> <<>>],
      [args |-> <<SQL(Text_ab_p)>>, kwargs |-> <<>>] }

NoEnv == [kind |-> "none", val |-> "None", exc |-> NoExc, rc |-> 0]

\* what the underlying cursor operation does: the value it returns and the rowcount it
\* leaves, or the error it raises
CursorEnvs ==
    { [kind |-> "return", val |-> "None", exc |-> NoExc, rc |-> r] : r \in 0..MaxRowCount }
    \cup { [kind |-> "return", val |-> "rv", exc |-> NoExc, rc |-> 0] }
    \cup { [kind |-> "raise", val |-> "None", exc |-> e, rc |-> 0] : e \in {IntegrityError, KeyboardInterrupt} }

\* what the underlying commit, rollback or __exit__ does
ConnEnvs ==
    { [kind |-> "return", val |-> v, exc |-> NoExc, rc |-> 0] : v \in {"None", "rv"} }
    \cup { [kind |-> "raise", val |-> "None", exc |-> e, rc |-> 0] : e \in {IntegrityError, KeyboardInterrupt} }

\* Statements as text over a small alphabet with the three whitespace characters, and
\* as bytes with ASCII bytes, a stray continuation byte (0x80) and a lead byte (0xC3)
\* that is valid only before a continuation byte.
MaxLen == 3

Alphabet == {"a", " ", "\t", "\n"}

ByteAlphabet == {97, 32, 128, 195}

Texts == UNION { [1..n -> Alphabet] : n \in 0..MaxLen }

ByteStrings == UNION { [1..n -> ByteAlphabet] : n \in 0..MaxLen }

\* a statement or procedure name passed as the only positional argument
StatementForms ==
    { [args |-> <<Str(t)>>, kwargs |-> <<>>] : t \in Texts }
    \cup { [args |-> <<Bytes(b)>>, kwargs |-> <<>>] : b \in ByteStrings }
    \cup { [args |-> <<Composed(ps)>>, kwargs |-> <<>>] : ps \in {<<>>, << <<"a", "\n", "a">>, <<"a">> >>} }

\* the error leaving a with-block, NoExc when it ends normally
BlockErrors == {NoExc, SomeException, KeyboardInterrupt}

\* keyword arguments of cursor(): any of the three trace flags, each True or False
CursorKwargs ==
    UNION { [ks -> BOOLEAN] : ks \in SUBSET TraceFlagKeys }

\* span_tags given at construction, in insertion order
NoTags == <<>>

CustomTags == << [k |-> "custom", v |-> "tag"] >>

ClashTags ==
    << [k |-> DATABASE_TYPE, v |-> "nosql"],
       [k |-> ROWS_PRODUCED, v |-> 99],
       [k |-> ERROR, v |-> FALSE],
       [k |-> "custom", v |-> "tag"] >>

TagChoices == {NoTags, CustomTags, ClashTags}

\* trace_commit, trace_rollback, trace_execute, trace_executemany, trace_callproc
FlagChoices ==
    { <<TRUE, TRUE, TRUE, TRUE, TRUE>>,
      <<FALSE, FALSE, FALSE, FALSE, FALSE>>,
      <<FALSE, TRUE, FALSE, TRUE, FALSE>>,
      <<TRUE, FALSE, TRUE, FALSE, TRUE>> }

\* _ConnectionTracing.__init__: span_tags or {}, the five flags
ConnInit(flags, span_tags) ==
    [commit |-> flags[1], rollback |-> flags[2], execute |-> flags[3],
     executemany |-> flags[4], callproc |-> flags[5],
     span_tags |-> span_tags, cls |-> ConnectionClassName]

IdleCall == [op |-> "idle", args |-> <<>>, kwargs |-> <<>>, env |-> NoEnv, exc |-> NoExc]

CursorOps == {"execute", "executemany", "callproc"}

----------------------------------------------------------------------------
\* The wrapper calls.

TracingInit ==
    /\ variant \in {"proxy", "subclass"}
    /\ conn \in {ConnInit(f, t) : f \in FlagChoices, t \in TagChoices}
    /\ cur = NoCursor
    /\ earlier = NoCursor
    /\ rowcount = -1
    /\ scope = FALSE
    /\ call = IdleCall
    /\ trace = <<>>
    /\ result = NoResult
    /\ blockOutcome = NoResult
    /\ active = <<>>

\* connection.cursor(**kwargs): a new traced cursor over a new underlying cursor; held
\* is the cursor the caller keeps beside the new one
ObtainCursor(held) ==
    /\ call.op = "idle"
    /\ \E kwargs \in CursorKwargs :
         LET r == Cursor_(variant, conn, kwargs)
         IN  /\ call' = [IdleCall EXCEPT !.op = "cursor", !.kwargs = kwargs]
             /\ conn' = CursorObjects(conn, held, kwargs).conn
             /\ earlier' = CursorObjects(conn, held, kwargs).earlier
             /\ cur' = CursorObjects(conn, held, kwargs).cur
             /\ trace' = r.trace
             /\ result' = r.result
    /\ rowcount' = -1
    /\ blockOutcome' = NoResult
    /\ UNCHANGED <<variant, scope, active, cacheVars>>

\* the caller replaces the cursor it used by the new one
CallCursor == ObtainCursor(earlier)

\* the caller keeps the cursor it used and takes the new one as well
CallCursorHolding == ObtainCursor(cur)

\* with connection as cursor: _ConnectionTracing.__enter__ returns self.cursor()
EnterScope(held) ==
    /\ call.op = "idle"
    /\ ~scope
    /\ LET r == Cursor_(variant, conn, <<>>)
       IN  /\ call' = [IdleCall EXCEPT !.op = "__enter__"]
           /\ conn' = CursorObjects(conn, held, <<>>).conn
           /\ earlier' = CursorObjects(conn, held, <<>>).earlier
           /\ cur' = CursorObjects(conn, held, <<>>).cur
           /\ trace' = r.trace
           /\ result' = r.result
    /\ scope' = TRUE
    /\ rowcount' = -1
    /\ blockOutcome' = NoResult
    /\ UNCHANGED <<variant, active, cacheVars>>

CallEnter == EnterScope(earlier)

CallEnterHolding == EnterScope(cur)

\* cursor.execute / executemany / callproc (*args, **kwargs), the arguments from forms
CursorCallOf(op, forms) ==
    /\ call.op = "idle"
    /\ cur.exists
    /\ \E form \in forms, env \in CursorEnvs :
         LET r == CursorOp(variant, cur, op, form.args, form.kwargs, env)
         IN  /\ call' = [op |-> op, args |-> form.args, kwargs |-> form.kwargs,
                         env |-> env, exc |-> NoExc]
             /\ trace' = r.trace
             /\ result' = r.result
             /\ rowcount' = IF Calls(r.trace) # <<>> /\ env.kind = "return" THEN env.rc ELSE rowcount
             /\ active' = active \o OpenSpans(r.trace)
    /\ blockOutcome' = NoResult
    /\ UNCHANGED <<variant, conn, cur, earlier, scope, cacheVars>>

CursorCall(op) == CursorCallOf(op, CallForms)

CallExecute == CursorCall("execute")

CallExecutemany == CursorCall("executemany")

CallCallproc == CursorCall("callproc")

\* connection.commit()
CallCommit ==
    /\ call.op = "idle"
    /\ \E env \in ConnEnvs :
         LET r == Commit(variant, conn, env)
         IN  /\ call' = [IdleCall EXCEPT !.op = "commit", !.env = env]
             /\ trace' = r.trace
             /\ result' = r.result
             /\ active' = active \o OpenSpans(r.trace)
    /\ blockOutcome' = NoResult
    /\ UNCHANGED <<variant, conn, cur, earlier, rowcount, scope, cacheVars>>

\* connection.rollback()
CallRollback ==
    /\ call.op = "idle"
    /\ \E env \in ConnEnvs :
         LET r == Rollback(variant, conn, env)
         IN  /\ call' = [IdleCall EXCEPT !.op = "rollback", !.env = env]
             /\ trace' = r.trace
             /\ result' = r.result
             /\ active' = active \o OpenSpans(r.trace)
    /\ blockOutcome' = NoResult
    /\ UNCHANGED <<variant, conn, cur, earlier, rowcount, scope, cacheVars>>

\* the with-block of the connection ends, normally or with an error
CallExit ==
    /\ call.op = "idle"
    /\ scope
    /\ \E exc \in BlockErrors, env \in ConnEnvs :
         LET r == Conn__exit__(variant, conn, exc, env)
         IN  /\ call' = [IdleCall EXCEPT !.op = "__exit__", !.env = env, !.exc = exc]
             /\ trace' = r.trace
             /\ result' = r.result
             /\ blockOutcome' = WithExit(exc, r.result)
             /\ active' = active \o OpenSpans(r.trace)
    /\ scope' = FALSE
    /\ UNCHANGED <<variant, conn, cur, earlier, rowcount, cacheVars>>

\* the caller has looked at the outcome and at tracer.finished_spans()
Observe ==
    /\ call.op # "idle"
    /\ call' = IdleCall
    /\ trace' = <<>>
    /\ result' = NoResult
    /\ blockOutcome' = NoResult
    /\ UNCHANGED <<variant, conn, cur, earlier, rowcount, scope, active, cacheVars>>

----------------------------------------------------------------------------
\* The registries of combined classes (psycopg2_tracing.py).

Threads == 1..NumThreads

Kinds == {"cursor", "connection"}

\* Underlying classes handed in as cursor_factory or connection_factory.  Any class may
\* be given as either; the two defaults are one class (object) when psycopg2 is missing.
Classes == {"A", "B"}

NoClass == 0

IdleThread == [pc |-> "idle", kind |-> "cursor", factory |-> "A", cls |-> NoClass, outcome |-> "none"]

\* _cursor_factory_classes = {}, _connection_factory_classes = {}, the two Lock()s
CacheInit ==
    /\ registry = [k \in Kinds |-> [f \in Classes |-> NoClass]]
    /\ lock = [k \in Kinds |-> 0]
    /\ thread = [t \in Threads |-> IdleThread]
    /\ defined = <<>>
    /\ requests = 0

\* The registry the membership test of __new__ reads: PsycopgCursorTracing tests
\* _cursor_factory_classes, and so does PsycopgConnectionTracing.
TestedRegistry(kind) == "cursor"

\* The registry __new__ inserts into and instantiates from.
OwnRegistry(kind) == kind

\* factory = kwargs.pop('cursor_factory' / 'connection_factory', default)
Begin(t) ==
    /\ thread[t].pc = "idle"
    /\ requests < MaxRequests
    /\ \E k \in Kinds, f \in Classes :
         thread' = [thread EXCEPT ![t] = [IdleThread EXCEPT !.pc = "acquire", !.kind = k, !.factory = f]]
    /\ requests' = requests + 1
    /\ UNCHANGED <<registry, lock, defined, tracingVars>>

\* Faulty variant of Acquire: the test and the insertion are made without the lock.
Acquire_NoLock(t) ==
    /\ thread[t].pc = "acquire"
    /\ lock' = [lock EXCEPT ![thread[t].kind] = t]
    /\ thread' = [thread EXCEPT ![t].pc = "test"]
    /\ UNCHANGED <<registry, defined, requests, tracingVars>>

\* with _cursor_factory_lock / _connection_factory_lock: enter
Acquire(t) ==
    /\ thread[t].pc = "acquire"
    /\ lock[thread[t].kind] = 0
    /\ lock' = [lock EXCEPT ![thread[t].kind] = t]
    /\ thread' = [thread EXCEPT ![t].pc = "test"]
    /\ UNCHANGED <<registry, defined, requests, tracingVars>>

\* if factory not in _cursor_factory_classes:
Test(t) ==
    /\ thread[t].pc = "test"
    /\ thread' = [thread EXCEPT ![t].pc =
                    IF registry[TestedRegistry(thread[t].kind)][thread[t].factory] = NoClass
                    THEN "define" ELSE "release"]
    /\ UNCHANGED <<registry, lock, defined, requests, tracingVars>>

\* class CursorFactory(...) / class ConnectionFactory(...): a new class object
Define(t) ==
    /\ thread[t].pc = "define"
    /\ defined' = Append(defined, [kind |-> thread[t].kind, factory |-> thread[t].factory])
    /\ thread' = [thread EXCEPT ![t].pc = "insert", ![t].cls = Len(defined) + 1]
    /\ UNCHANGED <<registry, lock, requests, tracingVars>>

\* _cursor_factory_classes[factory] = CursorFactory / _connection_factory_classes[factory] = ...
Insert(t) ==
    /\ thread[t].pc = "insert"
    /\ registry' = [registry EXCEPT ![OwnRegistry(thread[t].kind)][thread[t].factory] = thread[t].cls]
    /\ thread' = [thread EXCEPT ![t].pc = "release"]
    /\ UNCHANGED <<lock, defined, requests, tracingVars>>

\* Faulty variant of Release: the instantiation is inside the with-block, the lock is
\* still held when the class is looked up and instantiated.
Release_AfterConstruct(t) ==
    /\ thread[t].pc = "release"
    /\ thread' = [thread EXCEPT ![t].pc = "lookup"]
    /\ UNCHANGED <<registry, lock, defined, requests, tracingVars>>

\* the with-block of the lock ends
Release(t) ==
    /\ thread[t].pc = "release"
    /\ lock' = [lock EXCEPT ![thread[t].kind] = 0]
    /\ thread' = [thread EXCEPT ![t].pc = "lookup"]
    /\ UNCHANGED <<registry, defined, requests, tracingVars>>

\* _cursor_factory_classes[factory] / _connection_factory_classes[factory]: KeyError if absent
Lookup(t) ==
    /\ thread[t].pc = "lookup"
    /\ LET c == registry[OwnRegistry(thread[t].kind)][thread[t].factory]
       IN  thread' = [thread EXCEPT ![t] =
                        IF c = NoClass
                        THEN [@ EXCEPT !.pc = "done", !.cls = NoClass, !.outcome = "KeyError"]
                        ELSE [@ EXCEPT !.pc = "construct", !.cls = c]]
    /\ UNCHANGED <<registry, lock, defined, requests, tracingVars>>

\* (*args, **kwargs): the combined class's __init__ runs the underlying constructor,
\* which returns or raises
Construct(t) ==
    /\ thread[t].pc = "construct"
    /\ \E o \in {"instance", "error"} :
         thread' = [thread EXCEPT ![t].pc = "done", ![t].outcome = o]
    /\ UNCHANGED <<registry, lock, defined, requests, tracingVars>>

\* __new__ has returned or raised; the thread may call again
Return(t) ==
    /\ thread[t].pc = "done"
    /\ thread' = [thread EXCEPT ![t] = IdleThread]
    /\ UNCHANGED <<registry, lock, defined, requests, tracingVars>>

----------------------------------------------------------------------------
\* Specifications.

\* the wrapper calls on one traced connection
Init == TracingInit /\ CacheInit

Next ==
    \/ CallCursor
    \/ CallEnter
    \/ CallExecute
    \/ CallExecutemany
    \/ CallCallproc
    \/ CallCommit
    \/ CallRollback
    \/ CallExit
    \/ Observe

Spec == Init /\ [][Next]_vars

\* concurrent requests for combined classes
InitCache ==
    /\ CacheInit
    /\ variant = "subclass"
    /\ conn = ConnInit(<<TRUE, TRUE, TRUE, TRUE, TRUE>>, NoTags)
    /\ cur = NoCursor
    /\ earlier = NoCursor
    /\ rowcount = -1
    /\ scope = FALSE
    /\ call = IdleCall
    /\ trace = <<>>
    /\ result = NoResult
    /\ blockOutcome = NoResult
    /\ active = <<>>

NextCache ==
    \E t \in Threads :
        \/ Begin(t)
        \/ Acquire(t)
        \/ Test(t)
        \/ Define(t)
        \/ Insert(t)
        \/ Release(t)
        \/ Lookup(t)
        \/ Construct(t)
        \/ Return(t)

SpecCache == InitCache /\ [][NextCache]_vars

\* a caller that holds on to cursors while it obtains new ones
NextCursors ==
    \/ CallCursorHolding
    \/ CallEnterHolding
    \/ CallExecute
    \/ CallExit
    \/ Observe

SpecCursors == Init /\ [][NextCursors]_vars

\* statements of every shape on cursors of a connection that traces everything
InitStatements ==
    /\ Init
    /\ conn = ConnInit(<<TRUE, TRUE, TRUE, TRUE, TRUE>>, NoTags)

ExecuteStatement == CursorCallOf("execute", StatementForms)

ExecutemanyStatement == CursorCallOf("executemany", StatementForms)

CallprocStatement == CursorCallOf("callproc", StatementForms)

NextStatements ==
    \/ CallCursor
    \/ ExecuteStatement
    \/ ExecutemanyStatement
    \/ CallprocStatement
    \/ Observe

SpecStatements == InitStatements /\ [][NextStatements]_vars

----------------------------------------------------------------------------
\* Properties.

\* the last call was execute, executemany or callproc
IsCursorCall == call.op \in CursorOps

\* ... with its trace flag true / false
TracedCursorCall == IsCursorCall /\ cur[call.op]

UntracedCursorCall == IsCursorCall /\ ~cur[call.op]

\* the underlying operation was reached
Invoked == Calls(trace) # <<>>

\* the caller received exactly what the underlying operation returned or raised
SameOutcome ==
    /\ result.kind = call.env.kind
    /\ result.val = call.env.val
    /\ result.exc = call.env.exc

TheSpan == Spans(trace)[1]

HasTag(span, k) == k \in DOMAIN span.tags

\* keys of the configured static tags
RECURSIVE StaticKeys(_)
StaticKeys(span_tags) ==
    IF span_tags = <<>> THEN {} ELSE {span_tags[1].k} \cup StaticKeys(Tail(span_tags))

\* the value configured last for key k
RECURSIVE StaticValue(_, _)
StaticValue(span_tags, k) ==
    IF span_tags[Len(span_tags)].k = k THEN span_tags[Len(span_tags)].v
    ELSE StaticValue(SubSeq(span_tags, 1, Len(span_tags) - 1), k)

\* the statement the caller passed first, as text
NormalizedStatement ==
    LET st == call.args[1]
    IN  CASE st.kind = "bytes" -> Str(Decode(st.val))
          [] st.kind = "Composed" -> Str(Join(st.parts))
          [] OTHER -> st

\* C1: with the trace flag of the operation false, execute, executemany, callproc,
\* commit and rollback start no span, invoke the underlying operation exactly once and
\* hand its return value or its error to the caller unchanged (both variants).
C1_UntracedIsTransparent ==
    (UntracedCursorCall \/ (call.op \in {"commit", "rollback"} /\ ~conn[call.op]))
    => /\ Spans(trace) = <<>>
       /\ Len(Calls(trace)) = 1
       /\ Calls(trace)[1].op = call.op
       /\ SameOutcome

C1_Witness ==
    /\ variant = "subclass"
    /\ call.op = "callproc"
    /\ ~cur.callproc
    /\ result = Raised(IntegrityError)
    /\ Len(Calls(trace)) = 1

\* C2 as stated: a traced execute, executemany or callproc whose underlying operation
\* returns produces exactly one finished span with db.type = "sql", span.kind = client,
\* db.statement = the normalized statement, db.rows_produced = the rowcount after the
\* call, and no error tag.
C2_Original ==
    (TracedCursorCall /\ Invoked /\ call.env.kind = "return")
    => /\ Len(Spans(trace)) = 1
       /\ TheSpan.finished = 1
       /\ TheSpan.tags[DATABASE_TYPE] = "sql"
       /\ TheSpan.tags[SPAN_KIND] = SPAN_KIND_RPC_CLIENT
       /\ TheSpan.tags[DATABASE_STATEMENT] = NormalizedStatement
       /\ TheSpan.tags[ROWS_PRODUCED] = rowcount
       /\ ~HasTag(TheSpan, ERROR)

\* the value of a tag set before the underlying call: the static tag of that key
\* when one is configured, else the standard value
BeforeCallTag(k, standard) ==
    IF k \in StaticKeys(cur.span_tags) THEN StaticValue(cur.span_tags, k) ELSE standard

\* C2 amended: ... exactly one finished span; db.rows_produced is the rowcount after
\* the call; db.type, span.kind and db.statement hold the standard values unless a
\* static tag of the same key is configured, which then holds; an error tag is present
\* only as a configured static tag.
C2_SuccessSpan ==
    (TracedCursorCall /\ Invoked /\ call.env.kind = "return")
    => /\ Len(Spans(trace)) = 1
       /\ TheSpan.finished = 1
       /\ TheSpan.tags[DATABASE_TYPE] = BeforeCallTag(DATABASE_TYPE, "sql")
       /\ TheSpan.tags[SPAN_KIND] = BeforeCallTag(SPAN_KIND, SPAN_KIND_RPC_CLIENT)
       /\ TheSpan.tags[DATABASE_STATEMENT] = BeforeCallTag(DATABASE_STATEMENT, NormalizedStatement)
       /\ TheSpan.tags[ROWS_PRODUCED] = rowcount
       /\ rowcount = call.env.rc
       /\ HasTag(TheSpan, ERROR) <=> ERROR \in StaticKeys(cur.span_tags)
       /\ HasTag(TheSpan, ERROR) => TheSpan.tags[ERROR] = StaticValue(cur.span_tags, ERROR)

C2_Witness ==
    /\ TracedCursorCall
    /\ call.env.kind = "return"
    /\ call.env.rc = 1
    /\ call.args # <<>>
    /\ call.args[1].kind = "bytes"
    /\ Len(Spans(trace)) = 1
    /\ cur.span_tags = ClashTags
    /\ TheSpan.tags[ROWS_PRODUCED] = 1
    /\ TheSpan.tags[DATABASE_TYPE] = "nosql"

\* C3 as stated: a traced execute, executemany or callproc whose underlying operation
\* raises produces exactly one span with the error flag and the four sfx.error tags and
\* without db.rows_produced, and the caller receives the same error.
C3_Original ==
    (TracedCursorCall /\ Invoked /\ call.env.kind = "raise")
    => /\ Len(Spans(trace)) = 1
       /\ HasTag(TheSpan, ERROR)
       /\ TheSpan.tags[ERROR] = TRUE
       /\ \A k \in {"sfx.error.message", "sfx.error.object", "sfx.error.kind", "sfx.error.stack"} :
            HasTag(TheSpan, k)
       /\ ~HasTag(TheSpan, ROWS_PRODUCED)
       /\ result = Raised(call.env.exc)

SfxKeys == {"sfx.error.message", "sfx.error.object", "sfx.error.kind", "sfx.error.stack"}

\* C3 amended: ... exactly one finished span and the caller receives the same error;
\* when the error derives from Exception the span carries error = True and the four
\* sfx.error tags of that error, when it does not (KeyboardInterrupt) this layer sets
\* none of them; db.rows_produced is never set from the rowcount: it is present only
\* as a configured static tag.
C3_FailureSpan ==
    (TracedCursorCall /\ Invoked /\ call.env.kind = "raise")
    => /\ Len(Spans(trace)) = 1
       /\ TheSpan.finished = 1
       /\ result = Raised(call.env.exc)
       /\ call.env.exc.isException
            => /\ HasTag(TheSpan, ERROR)
               /\ TheSpan.tags[ERROR] = TRUE
               /\ \A k \in SfxKeys : HasTag(TheSpan, k)
               /\ TheSpan.tags["sfx.error.message"] = call.env.exc.msg
               /\ TheSpan.tags["sfx.error.kind"] = call.env.exc.cls
       /\ ~call.env.exc.isException
            => /\ \A k \in SfxKeys : ~HasTag(TheSpan, k)
               /\ HasTag(TheSpan, ERROR) <=> ERROR \in StaticKeys(cur.span_tags)
               /\ HasTag(TheSpan, ERROR) => TheSpan.tags[ERROR] = StaticValue(cur.span_tags, ERROR)
       /\ HasTag(TheSpan, ROWS_PRODUCED) <=> ROWS_PRODUCED \in StaticKeys(cur.span_tags)
       /\ HasTag(TheSpan, ROWS_PRODUCED)
            => TheSpan.tags[ROWS_PRODUCED] = StaticValue(cur.span_tags, ROWS_PRODUCED)

C3_Witness ==
    /\ TracedCursorCall
    /\ call.env.kind = "raise"
    /\ call.env.exc = IntegrityError
    /\ result = Raised(IntegrityError)
    /\ Len(Spans(trace)) = 1
    /\ TheSpan.tags[ERROR] = TRUE
    /\ TheSpan.tags["sfx.error.kind"] = "IntegrityError"
    /\ ~HasTag(TheSpan, ROWS_PRODUCED)

\* the last call was made with its trace flag true
TracedCall ==
    \/ TracedCursorCall
    \/ call.op \in {"commit", "rollback"} /\ conn[call.op]
    \/ call.op = "__exit__" /\ (IF call.exc # NoExc THEN conn.rollback ELSE conn.commit)

\* C4: every traced call (execute, executemany, callproc, commit, rollback, scope exit)
\* starts exactly one span, finished exactly once before the call returns or raises,
\* and no span is left open.
C4_Original ==
    /\ active = <<>>
    /\ TracedCall
         => /\ Len(Spans(trace)) = 1
            /\ TheSpan.finished = 1
            /\ trace[Len(trace)].e = "finish"

\* names of the commit and rollback spans of the connection
CommitSpanName == <<conn.cls, ".", "commit", "(", ")">>

RollbackSpanName == <<conn.cls, ".", "rollback", "(", ")">>

\* C5: when the with-block of a traced connection ends with an error, its exit produces
\* exactly one span, named as the rollback operation, if trace_rollback is true and none
\* otherwise, and no commit span; when it ends normally, exactly one span named as the
\* commit operation if trace_commit is true and none otherwise, and no rollback span.
C5_ScopeExitSpans ==
    call.op = "__exit__"
    => Names(Spans(trace)) =
         IF call.exc # NoExc
         THEN (IF conn.rollback THEN <<RollbackSpanName>> ELSE <<>>)
         ELSE (IF conn.commit THEN <<CommitSpanName>> ELSE <<>>)

C5_Witness ==
    /\ call.op = "__exit__"
    /\ variant = "proxy"
    /\ call.exc = SomeException
    /\ conn.rollback
    /\ ~conn.commit
    /\ Names(Spans(trace)) = <<RollbackSpanName>>

\* C6 as stated: an error leaving the with-block of a traced connection still
\* propagates after the exit, whatever the underlying exit returns.
C6_Original ==
    (call.op = "__exit__" /\ call.exc # NoExc) => blockOutcome = Raised(call.exc)

\* C6 amended: the wrapper's exit hands back exactly what the underlying exit (through
\* it, the underlying rollback) returns or raises; so when the underlying exit returns,
\* the block's error propagates exactly if the returned value is false, and when the
\* underlying exit raises, that error propagates.
C6_ExitAddsNoSuppression ==
    (call.op = "__exit__" /\ call.exc # NoExc)
    => /\ SameOutcome
       /\ call.env.kind = "return" /\ ~Truthy(call.env.val) => blockOutcome = Raised(call.exc)
       /\ call.env.kind = "return" /\ Truthy(call.env.val) => blockOutcome.kind = "return"
       /\ call.env.kind = "raise" => blockOutcome = Raised(call.env.exc)

C6_Witness ==
    /\ call.op = "__exit__"
    /\ call.exc = SomeException
    /\ conn.rollback
    /\ call.env.kind = "return"
    /\ call.env.val = "None"
    /\ Len(Spans(trace)) = 1
    /\ blockOutcome = Raised(SomeException)

\* the last cursor call as made by a cursor whose flag for that operation is f
WithFlag(f) ==
    CursorOp(variant, [cur EXCEPT ![call.op] = f], call.op, call.args, call.kwargs, call.env)

\* C7: for every argument form the driver accepts, the traced and the untraced wrapper
\* invoke the underlying operation the same number of times with the same arguments
\* and give the caller the same value or error.
C7_Original ==
    IsCursorCall
    => /\ Calls(WithFlag(TRUE).trace) = Calls(WithFlag(FALSE).trace)
       /\ WithFlag(TRUE).result = WithFlag(FALSE).result

\* C8: a traced execute, executemany or callproc invokes the underlying operation
\* exactly once, with exactly the positional and keyword arguments of the caller.
C8_Original ==
    TracedCursorCall
    => /\ Len(Calls(trace)) = 1
       /\ Calls(trace)[1].op = call.op
       /\ Calls(trace)[1].args = call.args
       /\ Calls(trace)[1].kwargs = call.kwargs

\* combined classes defined for underlying class f in registry kind k
ClassesOf(k, f) == {i \in DOMAIN defined : defined[i] = [kind |-> k, factory |-> f]}

\* the request of thread t found a combined class and instantiated it
Instantiated(t) ==
    \/ thread[t].pc = "construct"
    \/ thread[t].pc = "done" /\ thread[t].outcome # "KeyError"

\* at most one combined class is ever defined per factory in registry k, and every
\* request of kind k that instantiated used the registered class, defined for its factory
OneClassPerFactory(k) ==
    /\ \A f \in Classes : Cardinality(ClassesOf(k, f)) <= 1
    /\ \A t \in Threads :
         (thread[t].kind = k /\ Instantiated(t))
         => /\ thread[t].cls \in ClassesOf(k, thread[t].factory)
            /\ thread[t].cls = registry[k][thread[t].factory]

\* no request of kind k fails to find its class
AlwaysFound(k) ==
    \A t \in Threads : thread[t].kind = k => thread[t].outcome # "KeyError"

\* an entry of registry k, once inserted, keeps its class
NeverReplaced(k) ==
    \A f \in Classes : registry[k][f] # NoClass => registry'[k][f] = registry[k][f]

\* C9: under any interleaving of PsycopgCursorTracing calls, exactly one combined class
\* is ever defined per underlying cursor class, every call instantiates that class, and
\* an entry of the cursor registry is never replaced.
C9_CursorCache ==
    /\ [](OneClassPerFactory("cursor") /\ AlwaysFound("cursor"))
    /\ [][NeverReplaced("cursor")]_vars

C9_Witness ==
    /\ \A t \in {1, 2} :
         /\ thread[t].kind = "cursor"
         /\ thread[t].factory = "A"
         /\ thread[t].pc = "done"
         /\ thread[t].outcome = "instance"
    /\ thread[1].cls = thread[2].cls
    /\ thread[1].cls # NoClass
    /\ requests = 2

\* C10: two requests for a traced connection of the same underlying class use the same
\* combined class; the connection registry entry is populated at most once.
C10_Original ==
    [](OneClassPerFactory("connection")) /\ [][NeverReplaced("connection")]_vars

----------------------------------------------------------------------------
\* Static tags on every span.

\* the static tags of the object that made the last call
CallerTags == IF IsCursorCall THEN cur.span_tags ELSE conn.span_tags

\* keys the wrapper sets after the static tags in the last call: db.rows_produced when
\* a cursor operation returns, the five error tags when the operation raises an Exception
SetAfterStatic ==
    IF call.env.kind = "return" THEN (IF IsCursorCall THEN {ROWS_PRODUCED} ELSE {})
    ELSE IF call.env.kind = "raise" /\ call.env.exc.isException THEN {ERROR} \cup SfxKeys
    ELSE {}

\* C11 as stated: every span produced carries every configured static tag key with its
\* configured value, on the success path and on the failure path.
C11_Original ==
    \A i \in DOMAIN Spans(trace) : \A k \in StaticKeys(CallerTags) :
        /\ HasTag(Spans(trace)[i], k)
        /\ Spans(trace)[i].tags[k] = StaticValue(CallerTags, k)

\* C11 amended: every span produced carries every configured static tag key; its value
\* is the configured one unless the wrapper sets the same key after the static tags
\* (db.rows_produced when a cursor operation returns, error and sfx.error.* when the
\* operation raises an Exception), and then it is the wrapper's value.
C11_StaticTagsKept ==
    \A i \in DOMAIN Spans(trace) : \A k \in StaticKeys(CallerTags) :
        /\ HasTag(Spans(trace)[i], k)
        /\ k \notin SetAfterStatic => Spans(trace)[i].tags[k] = StaticValue(CallerTags, k)
        /\ (k = ROWS_PRODUCED /\ k \in SetAfterStatic) => Spans(trace)[i].tags[k] = call.env.rc
        /\ (k = ERROR /\ k \in SetAfterStatic) => Spans(trace)[i].tags[k] = TRUE

C11_Witness ==
    /\ call.op = "rollback"
    /\ conn.span_tags = ClashTags
    /\ call.env.kind = "raise"
    /\ call.env.exc = IntegrityError
    /\ Len(Spans(trace)) = 1
    /\ TheSpan.tags["custom"] = "tag"
    /\ TheSpan.tags[ROWS_PRODUCED] = 99
    /\ TheSpan.tags[DATABASE_TYPE] = "nosql"
    /\ TheSpan.tags[ERROR] = TRUE

----------------------------------------------------------------------------
\* Flag overrides of cursor().

\* the step is a call of cursor() or an entry of the connection's scope
ObtainsCursor == call.op = "idle" /\ call'.op \in {"cursor", "__enter__"}

\* C12: a call of cursor() with trace_execute / trace_executemany / trace_callproc
\* overrides decides the flags of the cursor it returns only (override, else the
\* connection's flag); the connection's flags and tags never change, and a cursor
\* obtained earlier keeps its flags when later cursors are obtained or the scope is
\* entered.
C12_OverridesAreLocal ==
    /\ [][conn' = conn]_vars
    /\ [][ObtainsCursor
            => /\ earlier' = cur
               /\ \A f \in CursorOps : cur'[f] = Pop(call'.kwargs, "trace_" \o f, conn[f])]_vars
    /\ [][~ObtainsCursor => (earlier' = earlier /\ cur' = cur)]_vars

C12_Witness ==
    /\ call.op = "__enter__"
    /\ conn.execute
    /\ conn.callproc
    /\ earlier.exists
    /\ ~earlier.execute
    /\ ~earlier.callproc
    /\ cur.execute
    /\ cur.callproc

----------------------------------------------------------------------------
\* Span names.

IsSpace(c) == c \in {" ", "\t", "\n"}

RECURSIVE SkipSpace(_)
SkipSpace(t) ==
    IF t # <<>> /\ IsSpace(t[1]) THEN SkipSpace(Tail(t)) ELSE t

RECURSIVE UntilSpace(_)
UntilSpace(t) ==
    IF t = <<>> \/ IsSpace(t[1]) THEN <<>> ELSE <<t[1]>> \o UntilSpace(Tail(t))

\* the first whitespace-delimited token of a text; empty when there is none
FirstToken(t) == UntilSpace(SkipSpace(t))

\* "<class name>.<operation>(<fragment>)"
SpanName(class_name, op, fragment) ==
    <<class_name, ".", op, "(">> \o fragment \o <<")">>

\* C13: the span of a traced execute or executemany is named
\* "<CursorTypeName>.<operation>(<fragment>)", the fragment being the first token of the
\* statement text delimited by whitespace (space, tab or newline, leading whitespace
\* skipped); an empty Composed gives "<CursorTypeName>.<operation>()".
C13_Original ==
    (call.op \in {"execute", "executemany"} /\ TracedCursorCall /\ Spans(trace) # <<>>)
    => TheSpan.name = SpanName(cur.cls, call.op, FirstToken(NormalizedStatement.val))

\* C14: the span of a traced callproc is named "<CursorTypeName>.callproc(<p>)" with p
\* the whole procedure name as passed (decoded when bytes), spaces included, and p is
\* also the value of the db.statement tag.
C14_Original ==
    (call.op = "callproc" /\ TracedCursorCall /\ Spans(trace) # <<>>)
    => /\ TheSpan.name = SpanName(cur.cls, "callproc", NormalizedStatement.val)
       /\ TheSpan.name = SpanName(cur.cls, "callproc", TheSpan.tags[DATABASE_STATEMENT].val)

\* the last call passed its statement or procedure name as bytes
BytesCall == IsCursorCall /\ call.args # <<>> /\ call.args[1].kind = "bytes"

\* C15: a statement or procedure name given as bytes never makes a traced call fail
\* before the underlying operation: it is decoded as UTF-8 with invalid bytes replaced,
\* the decoded text is the db.statement tag, and for callproc the same decoded text is
\* what stands inside the parentheses of the span name.
C15_Original ==
    (BytesCall /\ TracedCursorCall)
    => /\ Len(Spans(trace)) = 1
       /\ Invoked
       /\ SameOutcome
       /\ TheSpan.tags[DATABASE_STATEMENT] = Str(Decode(call.args[1].val))
       /\ call.op = "callproc"
            => TheSpan.name = SpanName(cur.cls, "callproc", Decode(call.args[1].val))


----------------------------------------------------------------------------
\* The two variants side by side.

\* the last call, had it been made on the other kind of traced object over the same
\* underlying objects: same flags and tags, same arguments, same driver behaviour
InVariant(v) ==
    IF call.op \in CursorOps
    THEN CursorOp(v, cur, call.op, call.args, call.kwargs, call.env)
    ELSE IF call.op = "commit" THEN Commit(v, conn, call.env)
    ELSE IF call.op = "rollback" THEN Rollback(v, conn, call.env)
    ELSE IF call.op = "__exit__" THEN Conn__exit__(v, conn, call.exc, call.env)
    ELSE Cursor_(v, conn, call.kwargs)

\* C16: the proxy variant and the subclass variant produce the same spans (count, names,
\* tags) and give the caller the same result or error for every cursor(), execute,
\* executemany, callproc, commit, rollback, scope-enter and scope-exit call.
C16_Original ==
    call.op # "idle"
    => /\ Spans(InVariant("proxy").trace) = Spans(InVariant("subclass").trace)
       /\ InVariant("proxy").result = InVariant("subclass").result
       /\ Spans(trace) = Spans(InVariant(variant).trace)
       /\ result = InVariant(variant).result


----------------------------------------------------------------------------
\* The mapping passed as span_tags.  __init__ keeps span_tags or {}: a mapping that is
\* not empty is kept as the very object the caller passed (no copy is made), and
\* cursor() hands the same object on to every cursor; an empty or missing mapping is
\* replaced by a new empty one.

\* mapping[k] = v on a mapping in insertion order: a present key keeps its place
RECURSIVE SetItem(_, _, _)
SetItem(span_tags, k, v) ==
    IF span_tags = <<>> THEN << [k |-> k, v |-> v] >>
    ELSE IF span_tags[1].k = k THEN << [k |-> k, v |-> v] >> \o Tail(span_tags)
    ELSE << span_tags[1] >> \o SetItem(Tail(span_tags), k, v)

\* the assignments the caller makes to its mapping after construction
TagUpdates == { [k |-> "custom", v |-> "changed"], [k |-> "added", v |-> "x"] }

\* a traced object after the caller's mapping changed: the object that kept the
\* caller's mapping (it was not empty) reads the new contents
Sharing(self, span_tags) ==
    IF self.span_tags # <<>> THEN [self EXCEPT !.span_tags = span_tags] ELSE self

\* between two calls the caller assigns to a key of the mapping it passed as span_tags
CallerSetsTag ==
    /\ call.op = "idle"
    /\ conn.span_tags # <<>>
    /\ \E u \in TagUpdates :
         LET span_tags == SetItem(conn.span_tags, u.k, u.v)
         IN  /\ span_tags # conn.span_tags
             /\ conn' = Sharing(conn, span_tags)
             /\ cur' = Sharing(cur, span_tags)
             /\ earlier' = Sharing(earlier, span_tags)
    /\ UNCHANGED <<variant, rowcount, scope, call, trace, result, blockOutcome, active, cacheVars>>

NextTags ==
    \/ CallCursor
    \/ CallExecute
    \/ CallCommit
    \/ CallerSetsTag
    \/ Observe

SpecTags == Init /\ [][NextTags]_vars

\* C17: a traced connection owns a copy of its static tags: whatever the caller does to
\* the mapping it passed, the connection's tags stay those given at construction, and
\* so do the tags of a cursor, which are the connection's from the cursor's creation on.
C17_Original ==
    [][/\ conn'.span_tags = conn.span_tags
       /\ cur'.exists => cur'.span_tags = conn.span_tags]_vars


----------------------------------------------------------------------------
\* Construction of combined connections and cursors (psycopg2_tracing.py), one request
\* at a time.

KeyError == [cls |-> "KeyError", msg |-> "factory", isException |-> TRUE]

\* psycopg2.extensions.connection and psycopg2.extensions.cursor, the default factories
PsycopgConnection == "A"

PsycopgCursor == "B"

DefaultFactory(kind) == IF kind = "connection" THEN PsycopgConnection ELSE PsycopgCursor

\* the keyword of the underlying class, popped by __new__
FactoryKey(kind) == kind \o "_factory"

\* the options ConnectionFactory.__init__ pops from kw
ConnectionOptions ==
    {"tracer", "span_tags", "trace_commit", "trace_rollback",
     "trace_execute", "trace_executemany", "trace_callproc"}

\* the options CursorFactory.__init__ pops from kw
CursorOptions ==
    {"tracer", "span_tags", "trace_execute", "trace_executemany", "trace_callproc"}

PoppedOptions(kind) == IF kind = "connection" THEN ConnectionOptions ELSE CursorOptions

\* dsn for a connection, the connection for a cursor
FirstArg(kind) ==
    [kind |-> IF kind = "connection" THEN "dsn" ELSE "conn", val |-> <<>>, parts |-> <<>>]

\* Faulty variant of ClassName: the combined class keeps the name of its class statement.
ClassName_Unset(class) ==
    IF class.kind = "connection" THEN "ConnectionFactory" ELSE "CursorFactory"

\* CursorFactory.__name__ = factory.__name__ / ConnectionFactory.__name__ = factory.__name__
ClassName(class) == class.factory

\* class CursorFactory(_PsycopgCursorTracing, factory) / ConnectionFactory(..., factory)
Bases(class) ==
    {IF class.kind = "connection" THEN "_PsycopgConnectionTracing" ELSE "_PsycopgCursorTracing",
     class.factory}

\* what the mixin's __init__ stores on the new object; kw are the keyword arguments left
\* after __new__ popped the factory
Attributes(kind, class, kw) ==
    IF kind = "connection"
    THEN [commit |-> Pop(kw, "trace_commit", TRUE),
          rollback |-> Pop(kw, "trace_rollback", TRUE),
          execute |-> Pop(kw, "trace_execute", TRUE),
          executemany |-> Pop(kw, "trace_executemany", TRUE),
          callproc |-> Pop(kw, "trace_callproc", TRUE),
          span_tags |-> Pop(kw, "span_tags", NoTags),
          cls |-> ClassName(class),
          bases |-> Bases(class),
          cursor_factory |-> Pop(kw, "cursor_factory", PsycopgCursor)]
    ELSE [exists |-> TRUE,
          execute |-> Pop(kw, "trace_execute", TRUE),
          executemany |-> Pop(kw, "trace_executemany", TRUE),
          callproc |-> Pop(kw, "trace_callproc", TRUE),
          span_tags |-> Pop(kw, "span_tags", NoTags),
          cls |-> ClassName(class),
          bases |-> Bases(class)]

\* ConnectionFactory.__init__(self, dsn, *a, **kw) / CursorFactory.__init__(self, conn,
\* *a, **kw): the pops, the mixin's __init__, then factory.__init__(self, dsn, *a, **kw)
Factory__init__(kind, class, kw, env) ==
    [object |-> Attributes(kind, class, kw),
     trace |-> <<Invoke([op |-> "__init__", bound |-> FALSE], <<Self, FirstArg(kind)>>,
                        Remaining(kw, PoppedOptions(kind)))>>,
     result |-> IF env.kind = "raise" THEN Raised(env.exc) ELSE Returned(kind)]

\* PsycopgConnectionTracing.__new__ / PsycopgCursorTracing.__new__ (cls, *args, **kwargs)
Psycopg__new__(kind, kwargs, env) ==
    LET factory == Pop(kwargs, FactoryKey(kind), DefaultFactory(kind))
        kw == Remaining(kwargs, {FactoryKey(kind)})
        absent == registry[TestedRegistry(kind)][factory] = NoClass
        classes == IF absent THEN Append(defined, [kind |-> kind, factory |-> factory])
                   ELSE defined
        reg == IF absent THEN [registry EXCEPT ![OwnRegistry(kind)][factory] = Len(classes)]
               ELSE registry
        c == reg[OwnRegistry(kind)][factory]
    IN  IF c = NoClass
        THEN [registry |-> reg, defined |-> classes, made |-> FALSE,
              object |-> NoCursor, trace |-> <<>>, result |-> Raised(KeyError)]
        ELSE LET r == Factory__init__(kind, classes[c], kw, env)
             IN  [registry |-> reg, defined |-> classes, made |-> r.result.kind = "return",
                  object |-> r.object, trace |-> r.trace, result |-> r.result]

\* a keyword argument the wrapper does not know, for the underlying constructor
PassedThrough(kind) == IF kind = "connection" THEN "async_" ELSE "name"

Keywords(kind) ==
    PoppedOptions(kind)
    \cup (IF kind = "connection" THEN {"connection_factory", "cursor_factory"}
          ELSE {"cursor_factory"})
    \cup {PassedThrough(kind)}

\* keyword arguments with the keys ks; f and g are the classes given as factories
Options(ks, f, g) ==
    [k \in ks |-> IF k = "connection_factory" THEN f
                  ELSE IF k = "cursor_factory" THEN g
                  ELSE IF k = "tracer" THEN "tracer"
                  ELSE IF k = "span_tags" THEN CustomTags
                  ELSE IF k \in {"async_", "name"} THEN "1"
                  ELSE k \in {"trace_commit", "trace_execute"}]

\* none of the keywords, each one alone, and all of them
ConstructKwargs(kind) ==
    { Options(ks, f, g) :
        ks \in {{}, Keywords(kind)} \cup { {k} : k \in Keywords(kind) },
        f \in Classes, g \in Classes }

\* the underlying constructor returns or raises
ConstructEnvs ==
    { [kind |-> "return", val |-> "None", exc |-> NoExc, rc |-> 0],
      [kind |-> "raise", val |-> "None", exc |-> IntegrityError, rc |-> 0] }

\* PsycopgConnectionTracing(dsn, **kwargs)
ConstructConnection ==
    /\ call.op = "idle"
    /\ requests < MaxRequests
    /\ \E kwargs \in ConstructKwargs("connection"), env \in ConstructEnvs :
         LET r == Psycopg__new__("connection", kwargs, env)
         IN  /\ call' = [IdleCall EXCEPT !.op = "PsycopgConnectionTracing",
                                         !.kwargs = kwargs, !.env = env]
             /\ registry' = r.registry
             /\ defined' = r.defined
             /\ conn' = IF r.made THEN r.object ELSE conn
             /\ cur' = IF r.made THEN NoCursor ELSE cur
             /\ trace' = r.trace
             /\ result' = r.result
    /\ requests' = requests + 1
    /\ rowcount' = -1
    /\ blockOutcome' = NoResult
    /\ UNCHANGED <<variant, earlier, scope, active, lock, thread>>

\* PsycopgCursorTracing(conn, **kwargs)
ConstructCursor ==
    /\ call.op = "idle"
    /\ requests < MaxRequests
    /\ \E kwargs \in ConstructKwargs("cursor"), env \in ConstructEnvs :
         LET r == Psycopg__new__("cursor", kwargs, env)
         IN  /\ call' = [IdleCall EXCEPT !.op = "PsycopgCursorTracing",
                                         !.kwargs = kwargs, !.env = env]
             /\ registry' = r.registry
             /\ defined' = r.defined
             /\ cur' = IF r.made THEN r.object ELSE cur
             /\ trace' = r.trace
             /\ result' = r.result
    /\ requests' = requests + 1
    /\ rowcount' = -1
    /\ blockOutcome' = NoResult
    /\ UNCHANGED <<variant, conn, earlier, scope, active, lock, thread>>

\* keyword arguments of cursor() on a combined connection
PsycopgCursorKwargs ==
    { <<>>, [k \in {"trace_execute"} |-> FALSE] }
    \cup { [k \in {"cursor_factory"} |-> g] : g \in Classes }

\* _PsycopgConnectionTracing.cursor(self, name=None, *args, **kwargs): the keyword
\* arguments it hands to PsycopgCursorTracing
PsycopgCursorArgs(self, kwargs) ==
    [k \in {"name", "cursor_factory", "tracer", "span_tags"} \cup TraceFlagKeys |->
        IF k = "name" THEN "None"
        ELSE IF k = "cursor_factory" THEN Pop(kwargs, "cursor_factory", self.cursor_factory)
        ELSE IF k = "tracer" THEN "tracer"
        ELSE IF k = "span_tags" THEN self.span_tags
        ELSE Pop(kwargs, k, self[IF k = "trace_execute" THEN "execute"
                                 ELSE IF k = "trace_executemany" THEN "executemany"
                                 ELSE "callproc"])]

\* connection.cursor(**kwargs) and, through __enter__, connection.cursor() on a
\* combined connection
CallPsycopgCursor ==
    /\ call.op = "idle"
    /\ requests < MaxRequests
    /\ "cursor_factory" \in DOMAIN conn
    /\ \E op \in {"cursor", "__enter__"}, kwargs \in PsycopgCursorKwargs, env \in ConstructEnvs :
         LET r == Psycopg__new__("cursor", PsycopgCursorArgs(conn, kwargs), env)
         IN  /\ op = "__enter__" => kwargs = <<>>
             /\ call' = [IdleCall EXCEPT !.op = op, !.kwargs = kwargs, !.env = env]
             /\ registry' = r.registry
             /\ defined' = r.defined
             /\ cur' = IF r.made THEN r.object ELSE cur
             /\ trace' = r.trace
             /\ result' = r.result
    /\ requests' = requests + 1
    /\ rowcount' = -1
    /\ blockOutcome' = NoResult
    /\ UNCHANGED <<variant, conn, earlier, scope, active, lock, thread>>

\* cursor.execute('ab p')
ExecuteText == CursorCallOf("execute", {[args |-> <<Str(Text_ab_p)>>, kwargs |-> <<>>]})

NextConstruct ==
    \/ ConstructConnection
    \/ ConstructCursor
    \/ CallPsycopgCursor
    \/ ExecuteText
    \/ CallCommit
    \/ Observe

SpecConstruct == InitCache /\ [][NextConstruct]_vars

\* the last call constructed, or tried to construct, an object of this kind
Constructing(kind) ==
    call.op = (IF kind = "connection" THEN "PsycopgConnectionTracing" ELSE "PsycopgCursorTracing")

\* the tracing configuration options
Recognized ==
    ConnectionOptions \cup {"connection_factory", "cursor_factory"}

\* C18: constructing a combined connection or cursor runs the underlying constructor
\* exactly once, with the caller's keyword arguments less every tracing option.
C18_Original ==
    \A kind \in Kinds :
        Constructing(kind)
        => /\ Len(Calls(trace)) = 1
           /\ Calls(trace)[1].op = "__init__"
           /\ Calls(trace)[1].kwargs = Remaining(call.kwargs, Recognized)


\* the object is an instance of class c: c is a base of its combined class
IsInstance(object, c) == c \in object.bases

\* the underlying class a constructed object was requested for
RequestedFactory ==
    IF Constructing("connection") THEN Pop(call.kwargs, "connection_factory", PsycopgConnection)
    ELSE IF Constructing("cursor") THEN Pop(call.kwargs, "cursor_factory", PsycopgCursor)
    ELSE Pop(call.kwargs, "cursor_factory", conn.cursor_factory)

\* the last call returned a combined connection, or a combined cursor
MadeConnection == Constructing("connection") /\ result.kind = "return"

MadeCursor ==
    /\ Constructing("cursor") \/ (call.op \in {"cursor", "__enter__"} /\ "bases" \in DOMAIN conn)
    /\ result.kind = "return"

\* C19: a combined connection returned for connection_factory F is an instance of F, a
\* cursor returned by its cursor(cursor_factory=G) or by entering its scope is an
\* instance of the effective cursor class, and the spans of both are named after the
\* underlying class.
C19_InstancesAndNames ==
    /\ MadeConnection
         => /\ IsInstance(conn, RequestedFactory)
            /\ conn.cls = RequestedFactory
    /\ MadeCursor
         => /\ IsInstance(cur, RequestedFactory)
            /\ cur.cls = RequestedFactory
    /\ (call.op = "commit" /\ "bases" \in DOMAIN conn /\ Spans(trace) # <<>>)
         => \E F \in Classes :
              /\ IsInstance(conn, F)
              /\ TheSpan.name = SpanName(F, "commit", <<>>)
    /\ (call.op = "execute" /\ "bases" \in DOMAIN cur /\ Spans(trace) # <<>>)
         => \E G \in Classes :
              /\ IsInstance(cur, G)
              /\ TheSpan.name = SpanName(G, "execute", FirstToken(call.args[1].val))

\* a connection made for class A gave a cursor for class B, whose execute was traced
C19_Witness ==
    /\ call.op = "execute"
    /\ "bases" \in DOMAIN conn
    /\ "bases" \in DOMAIN cur
    /\ IsInstance(conn, "A")
    /\ IsInstance(cur, "B")
    /\ conn.cursor_factory = "A"
    /\ Len(Spans(trace)) = 1
    /\ TheSpan.name = <<"B", ".", "execute", "(", "a", "b", ")">>


----------------------------------------------------------------------------
\* The order of events within one traced call.

ErrorKeys == {ERROR} \cup SfxKeys

\* the phase after event ev in phase p; untagged tells whether a failure may leave the
\* span without error tags
Transition(p, ev, untagged) ==
    IF p = "IDLE" /\ ev.e = "start" THEN "SPAN_STARTED"
    ELSE IF p \in {"SPAN_STARTED", "TAGGED"} /\ ev.e = "set_tag" THEN "TAGGED"
    ELSE IF p = "TAGGED" /\ ev.e = "call" THEN "UNDERLYING_CALL"
    ELSE IF p = "UNDERLYING_CALL" /\ ev.e = "rowcount" THEN "ROWCOUNT_READ"
    ELSE IF p = "ROWCOUNT_READ" /\ ev.e = "set_tag" /\ ev.k = ROWS_PRODUCED THEN "SUCCESS_TAGGED"
    ELSE IF p \in {"UNDERLYING_CALL", "ERROR_TAGGED"} /\ ev.e = "set_tag" /\ ev.k \in ErrorKeys
         THEN "ERROR_TAGGED"
    ELSE IF p \in {"SUCCESS_TAGGED", "ERROR_TAGGED"} /\ ev.e = "finish" THEN "FINISHED"
    ELSE IF untagged /\ p = "UNDERLYING_CALL" /\ ev.e = "finish" THEN "FINISHED"
    ELSE "REJECTED"

\* the phases a sequence of events goes through, from phase p
RECURSIVE Phases(_, _, _)
Phases(events, p, untagged) ==
    IF events = <<>> THEN <<p>>
    ELSE <<p>> \o Phases(Tail(events), Transition(p, events[1], untagged), untagged)

Last(s) == s[Len(s)]

Visits(s, p) == \E i \in DOMAIN s : s[i] = p

IsSetTag(ev) == ev.e = "set_tag"

RECURSIVE KeysOf(_)
KeysOf(events) ==
    IF events = <<>> THEN <<>> ELSE <<events[1].k>> \o KeysOf(Tail(events))

\* the events of a trace before the underlying operation is invoked
RECURSIVE BeforeInvoke(_)
BeforeInvoke(events) ==
    IF events = <<>> \/ events[1].e = "call" THEN <<>>
    ELSE <<events[1]>> \o BeforeInvoke(Tail(events))

\* the keys of the static tags, in the order of the mapping
RECURSIVE KeysInOrder(_)
KeysInOrder(span_tags) ==
    IF span_tags = <<>> THEN <<>> ELSE <<span_tags[1].k>> \o KeysInOrder(Tail(span_tags))

\* C20 as stated: every traced execute, executemany or callproc goes through span start,
\* the standard and static tags, the underlying call, then rowcount read and
\* db.rows_produced (success) or the error tags (failure), then span finish; nothing else.
C20_Original ==
    TracedCursorCall
    => LET phases == Phases(trace, "IDLE", FALSE)
       IN  /\ Last(phases) = "FINISHED"
           /\ Visits(phases, "SUCCESS_TAGGED") <=> result.kind = "return"
           /\ Visits(phases, "ERROR_TAGGED") <=> result.kind = "raise"

\* C20 amended: a traced call whose statement is normalized goes through span start,
\* db.type, span.kind, db.statement and the static tags in this order, the underlying
\* call, then rowcount read and db.rows_produced (success), or the error tags (failure
\* with an Exception), or nothing (failure with an error that is no Exception), then
\* span finish, and the caller gets the result or the error; a call whose statement is
\* not normalized raises without any event.
C20_EventOrder ==
    TracedCursorCall
    => LET phases == Phases(trace, "IDLE", TRUE)
       IN  \/ /\ trace = <<>>
              /\ result.kind = "raise"
              /\ result.exc \in {IndexError, AttributeError}
           \/ /\ Last(phases) = "FINISHED"
              /\ KeysOf(SelectSeq(BeforeInvoke(trace), IsSetTag))
                   = <<DATABASE_TYPE, SPAN_KIND, DATABASE_STATEMENT>> \o KeysInOrder(cur.span_tags)
              /\ Len(Calls(trace)) = 1
              /\ SameOutcome
              /\ Visits(phases, "SUCCESS_TAGGED") <=> result.kind = "return"
              /\ Visits(phases, "ERROR_TAGGED") <=> (result.kind = "raise" /\ result.exc.isException)

\* a traced callproc with static tags whose underlying operation raised an Exception
C20_Witness ==
    /\ call.op = "callproc"
    /\ TracedCursorCall
    /\ cur.span_tags = ClashTags
    /\ call.env.exc = IntegrityError
    /\ Phases(trace, "IDLE", TRUE) =
         <<"IDLE", "SPAN_STARTED", "TAGGED", "TAGGED", "TAGGED", "TAGGED", "TAGGED", "TAGGED",
           "TAGGED", "UNDERLYING_CALL", "ERROR_TAGGED", "ERROR_TAGGED", "ERROR_TAGGED",
           "ERROR_TAGGED", "ERROR_TAGGED", "FINISHED">>


----------------------------------------------------------------------------
\* Errors of commit and rollback.

\* the last call was a traced commit or rollback
TracedConnCall == call.op \in {"commit", "rollback"} /\ conn[call.op]

\* C21 as stated: when a traced commit or rollback raises, one span is produced and
\* finished, the same error propagates, and the call sets no error flag and no
\* sfx.error.* tag on the span.
C21_Original ==
    (TracedConnCall /\ call.env.kind = "raise")
    => /\ Len(Spans(trace)) = 1
       /\ TheSpan.finished = 1
       /\ result = Raised(call.env.exc)
       /\ \A k \in SfxKeys : ~HasTag(TheSpan, k)
       /\ HasTag(TheSpan, ERROR) => TheSpan.tags[ERROR] = StaticValue(conn.span_tags, ERROR)

\* C21 amended: when a traced commit or rollback raises, one span is produced and
\* finished and the same error propagates; the call of the underlying operation is
\* wrapped in try/except Exception, so for an error derived from Exception the span
\* carries error = True and the four sfx.error.* tags of that error, and for any other
\* error it carries none of them.
C21_ConnFailureSpan ==
    (TracedConnCall /\ call.env.kind = "raise")
    => /\ Len(Spans(trace)) = 1
       /\ TheSpan.finished = 1
       /\ Len(Calls(trace)) = 1
       /\ result = Raised(call.env.exc)
       /\ call.env.exc.isException
            => /\ HasTag(TheSpan, ERROR)
               /\ TheSpan.tags[ERROR] = TRUE
               /\ \A k \in SfxKeys : HasTag(TheSpan, k)
               /\ TheSpan.tags["sfx.error.message"] = call.env.exc.msg
               /\ TheSpan.tags["sfx.error.kind"] = call.env.exc.cls
       /\ ~call.env.exc.isException
            => /\ \A k \in SfxKeys : ~HasTag(TheSpan, k)
               /\ HasTag(TheSpan, ERROR) <=> ERROR \in StaticKeys(conn.span_tags)
               /\ HasTag(TheSpan, ERROR) => TheSpan.tags[ERROR] = StaticValue(conn.span_tags, ERROR)

\* a traced rollback raised IntegrityError and its span is tagged with it
C21_Witness ==
    /\ call.op = "rollback"
    /\ conn.rollback
    /\ call.env.exc = IntegrityError
    /\ result = Raised(IntegrityError)
    /\ Len(Spans(trace)) = 1
    /\ TheSpan.finished = 1
    /\ TheSpan.tags[ERROR] = TRUE
    /\ TheSpan.tags["sfx.error.kind"] = "IntegrityError"


----------------------------------------------------------------------------
\* Tags of transaction-control spans.

\* the last call was commit, rollback or the exit of the connection's scope
ConnCall == call.op \in {"commit", "rollback", "__exit__"}

\* the values the set_tag events of a trace give to key k, in order
RECURSIVE SetAt(_, _)
SetAt(events, k) ==
    IF events = <<>> THEN <<>>
    ELSE (IF events[1].e = "set_tag" /\ events[1].k = k THEN <<events[1].v>> ELSE <<>>)
         \o SetAt(Tail(events), k)

\* the values the static tags give to key k, in order
RECURSIVE StaticAt(_, _)
StaticAt(span_tags, k) ==
    IF span_tags = <<>> THEN <<>>
    ELSE (IF span_tags[1].k = k THEN <<span_tags[1].v>> ELSE <<>>) \o StaticAt(Tail(span_tags), k)

\* C22: on spans of commit, rollback and connection scope exit, db.rows_produced and
\* db.statement are never set by the wrapper itself, whether the operation returns or
\* raises: every set_tag of these keys is one of the configured static tags.
C22_NoRowsNoStatement ==
    ConnCall
    => /\ Len(Spans(trace)) <= 1
       /\ \A k \in {ROWS_PRODUCED, DATABASE_STATEMENT} :
            /\ SetAt(trace, k) = (IF Spans(trace) # <<>> THEN StaticAt(conn.span_tags, k) ELSE <<>>)
            /\ \A i \in DOMAIN trace : trace[i].e # "rowcount"
            /\ (Spans(trace) # <<>> /\ HasTag(TheSpan, k))
                 => /\ k \in StaticKeys(conn.span_tags)
                    /\ TheSpan.tags[k] = StaticValue(conn.span_tags, k)

\* a traced scope exit on the rollback path raised, and its span has neither tag
C22_Witness ==
    /\ call.op = "__exit__"
    /\ call.exc # NoExc
    /\ conn.rollback
    /\ conn.span_tags = CustomTags
    /\ call.env.kind = "raise"
    /\ Len(Spans(trace)) = 1
    /\ TheSpan.finished = 1
    /\ ~HasTag(TheSpan, ROWS_PRODUCED)
    /\ ~HasTag(TheSpan, DATABASE_STATEMENT)
    /\ HasTag(TheSpan, DATABASE_TYPE)


----------------------------------------------------------------------------
\* Effective flags of a cursor.

\* the flag a cursor obtained by the last call has for operation f: the override given
\* at the call site, else the connection's flag
EffectiveFlag(f) == Pop(call.kwargs, "trace_" \o f, conn[f])

\* C23: a cursor obtained from a traced connection has, for each of execute, executemany
\* and callproc, the call-site override if one was given, else the connection's flag,
\* and the connection's static tags; entering the connection's scope gives a cursor with
\* exactly the connection's flags and tags; and a cursor operation produces a span only
\* if the cursor's flag for it is true, going straight to the driver otherwise.
C23_EffectiveFlags ==
    /\ call.op \in {"cursor", "__enter__"}
         => /\ cur.exists
            /\ \A f \in CursorOps : cur[f] = EffectiveFlag(f)
            /\ cur.span_tags = conn.span_tags
    /\ call.op = "__enter__"
         => /\ call.kwargs = <<>>
            /\ \A f \in CursorOps : cur[f] = conn[f]
    /\ IsCursorCall
         => /\ ~cur[call.op] => (Spans(trace) = <<>> /\ Len(Calls(trace)) = 1 /\ SameOutcome)
            /\ (cur[call.op] /\ Invoked) => Len(Spans(trace)) = 1

\* a cursor whose execute flag was overridden to true on a connection that does not
\* trace execute: its execute produced a span
C23_Witness ==
    /\ call.op = "execute"
    /\ ~conn.execute
    /\ cur.execute
    /\ conn.executemany
    /\ ~cur.executemany
    /\ Len(Spans(trace)) = 1
    /\ Invoked


----------------------------------------------------------------------------
\* Nesting of spans.

\* the number of spans open before each event of a trace and after the last, from d
RECURSIVE Depths(_, _)
Depths(events, d) ==
    IF events = <<>> THEN <<d>>
    ELSE <<d>> \o Depths(Tail(events),
                         IF events[1].e = "start" THEN d + 1
                         ELSE IF events[1].e = "finish" THEN d - 1
                         ELSE d)

\* no span is started while another is open, none is finished twice, all are finished
\* when the call ends
OneAtATime(events) ==
    LET depths == Depths(events, 0)
    IN  /\ \A i \in DOMAIN depths : depths[i] \in {0, 1}
        /\ depths[Len(depths)] = 0

----------------------------------------------------------------------------
\* The registry locks.

\* the steps of __new__ inside the with-block of the lock
InsideLock == {"test", "define", "insert", "release"}

\* the thread holding the lock of registry k can take its next step
HolderCanStep(k) ==
    \E h \in Threads :
        /\ lock[k] = h
        /\ ENABLED (Test(h) \/ Define(h) \/ Insert(h) \/ Release(h))

\* C25: a registry lock is held only for the membership test and the definition and
\* insertion of the class: no thread holds it while it looks up and instantiates the
\* combined class, so whatever the threads inside underlying constructors do, a thread
\* waiting for the lock finds it free or held by a thread that can go on to release it.
C25_LockOnlyForCheckAndInsert ==
    /\ \A k \in Kinds : \A t \in Threads :
         lock[k] = t <=> (thread[t].kind = k /\ thread[t].pc \in InsideLock)
    /\ \A t \in Threads :
         thread[t].pc = "acquire"
         => (ENABLED Acquire(t) \/ HolderCanStep(thread[t].kind))

\* one thread is inside the underlying constructor while another holds the lock of the
\* same registry
C25_Witness ==
    /\ thread[1].pc = "construct"
    /\ thread[2].pc \in InsideLock
    /\ thread[2].kind = thread[1].kind
    /\ lock[thread[1].kind] = 2


----------------------------------------------------------------------------
\* Failed constructions.

\* the underlying constructor of thread t's request raised
Failed(t) == thread[t].pc = "done" /\ thread[t].outcome = "error"

\* the registries after the failed request of thread t: the lock is not held by t, the
\* registry maps the underlying class to the class t instantiated, that class is the
\* only one ever defined for it, and every other request for it that found a class
\* found the same one
ConsistentAfter(t) ==
    LET k == thread[t].kind
        f == thread[t].factory
    IN  /\ lock[k] # t
        /\ registry[k][f] = thread[t].cls
        /\ ClassesOf(k, f) = {thread[t].cls}
        /\ \A u \in Threads :
             (thread[u].kind = k /\ thread[u].factory = f /\ Instantiated(u))
             => thread[u].cls = thread[t].cls

\* C26: when the underlying constructor fails the caller gets that failure and the
\* registries stay consistent: lock free, the underlying class still mapped to the one
\* combined class defined for it, which every other request for that class uses.
C26_Original ==
    \A t \in Threads : Failed(t) => ConsistentAfter(t)


----------------------------------------------------------------------------
\* The scope of a cursor.

\* Faulty variant of Cursor__enter__: the proxy's default, the underlying cursor's
\* __enter__ and its value.
Cursor__enter___Wrapped(v, self) ==
    [trace |-> <<Invoke([op |-> "__enter__", bound |-> TRUE], <<>>, <<>>)>>,
     result |-> Returned("wrapped")]

\* _Cursor.__enter__: return self
Cursor__enter__(v, self) ==
    [trace |-> <<>>, result |-> Returned("self")]

\* __exit__ is not defined by the wrapper: the proxy forwards it to the underlying
\* cursor, the combined class inherits it from the underlying class
Cursor__exit__(v, self, exc, env) ==
    IF v = "proxy"
    THEN Untraced([op |-> "__exit__", bound |-> TRUE], <<ExcInfo(exc)>>, <<>>, env)
    ELSE Untraced([op |-> "__exit__", bound |-> FALSE], <<Self, ExcInfo(exc)>>, <<>>, env)

\* with cursor as c: the block is entered
CallCursorEnter ==
    /\ call.op = "idle"
    /\ cur.exists
    /\ LET r == Cursor__enter__(variant, cur)
       IN  /\ call' = [IdleCall EXCEPT !.op = "cursor.__enter__"]
           /\ trace' = r.trace
           /\ result' = r.result
    /\ blockOutcome' = NoResult
    /\ UNCHANGED <<variant, conn, cur, earlier, rowcount, scope, active, cacheVars>>

\* with cursor as c: the block ends, normally or with an error
CallCursorExit ==
    /\ call.op = "idle"
    /\ cur.exists
    /\ \E exc \in BlockErrors, env \in ConnEnvs :
         LET r == Cursor__exit__(variant, cur, exc, env)
         IN  /\ call' = [IdleCall EXCEPT !.op = "cursor.__exit__", !.env = env, !.exc = exc]
             /\ trace' = r.trace
             /\ result' = r.result
             /\ blockOutcome' = WithExit(exc, r.result)
    /\ UNCHANGED <<variant, conn, cur, earlier, rowcount, scope, active, cacheVars>>

NextScope ==
    \/ CallCursor
    \/ CallCursorEnter
    \/ CallExecute
    \/ CallCursorExit
    \/ Observe

SpecScope == Init /\ [][NextScope]_vars

DatabaseActions == CursorOps \cup {"commit", "rollback"}

\* C27: entering a traced cursor's scope returns that same traced cursor, and entering
\* or leaving the scope produces no span, invokes none of execute, executemany,
\* callproc, commit and rollback, and leaves the cursor and the connection as they were.
C27_CursorScope ==
    /\ [](call.op = "cursor.__enter__" => (result = Returned("self") /\ trace = <<>>))
    /\ [](call.op = "cursor.__exit__"
            => /\ Spans(trace) = <<>>
               /\ \A i \in DOMAIN trace : trace[i].e = "call" /\ trace[i].op \notin DatabaseActions
               /\ SameOutcome)
    /\ [][call'.op \in {"cursor.__enter__", "cursor.__exit__"}
            => (cur' = cur /\ conn' = conn /\ rowcount' = rowcount /\ active' = active)]_vars

\* the block of a cursor that traces everything ended after an execute
C27_Witness ==
    /\ call.op = "cursor.__exit__"
    /\ cur.execute
    /\ cur.executemany
    /\ cur.callproc
    /\ rowcount >= 0
    /\ Len(Calls(trace)) = 1
    /\ Spans(trace) = <<>>


----------------------------------------------------------------------------
\* Lookup of the combined connection class.

\* C28: a request for a traced connection never fails for want of a registry entry:
\* whatever connection and cursor requests came before, it finds a combined connection
\* class for its underlying class, defined for that class, and instantiates it.
C28_Original ==
    \A t \in Threads :
        (thread[t].kind = "connection" /\ thread[t].pc \in {"construct", "done"})
        => /\ thread[t].outcome # "KeyError"
           /\ thread[t].cls # NoClass
           /\ defined[thread[t].cls] = [kind |-> "connection", factory |-> thread[t].factory]


----------------------------------------------------------------------------
\* Static tags against the wrapper's own tags.

StandardKeys == {DATABASE_TYPE, SPAN_KIND, DATABASE_STATEMENT}

\* a traced execute, executemany or callproc produced a span
CursorSpan == TracedCursorCall /\ Spans(trace) # <<>>

\* a static tag keyed as a standard tag replaces the standard value
StaticReplacesStandard ==
    \A k \in StandardKeys \cap StaticKeys(cur.span_tags) :
        TheSpan.tags[k] = StaticValue(cur.span_tags, k)

\* the error tags hold the values of the error raised
ErrorTagsComputed ==
    /\ \A k \in {ERROR} \cup SfxKeys : HasTag(TheSpan, k)
    /\ TheSpan.tags[ERROR] = TRUE
    /\ TheSpan.tags["sfx.error.message"] = call.env.exc.msg
    /\ TheSpan.tags["sfx.error.object"] = "<class '" \o call.env.exc.cls \o "'>"
    /\ TheSpan.tags["sfx.error.kind"] = call.env.exc.cls

\* C29 as stated: in a traced execute-family span a static tag replaces a standard tag
\* of the same key, but db.rows_produced on success, and the error flag and the
\* sfx.error.* tags on failure, always hold the wrapper's values.
C29_Original ==
    CursorSpan
    => /\ StaticReplacesStandard
       /\ call.env.kind = "return" => TheSpan.tags[ROWS_PRODUCED] = call.env.rc
       /\ call.env.kind = "raise" => ErrorTagsComputed

\* C29 amended: as stated, with the failure part for errors derived from Exception;
\* when the operation raises an error that is no Exception the wrapper sets no tag
\* after the call, and a static tag keyed error, sfx.error.* or db.rows_produced keeps
\* its configured value.
C29_StaticNeverReplacesLater ==
    CursorSpan
    => /\ StaticReplacesStandard
       /\ call.env.kind = "return" => TheSpan.tags[ROWS_PRODUCED] = call.env.rc
       /\ (call.env.kind = "raise" /\ call.env.exc.isException) => ErrorTagsComputed
       /\ (call.env.kind = "raise" /\ ~call.env.exc.isException)
            => \A k \in {ERROR, ROWS_PRODUCED} \cup SfxKeys :
                 IF k \in StaticKeys(cur.span_tags)
                 THEN TheSpan.tags[k] = StaticValue(cur.span_tags, k)
                 ELSE ~HasTag(TheSpan, k)

\* static tags keyed db.type, db.rows_produced and error on a span of an execute that
\* returned: db.type is the static value, db.rows_produced the rowcount
C29_Witness ==
    /\ call.op = "execute"
    /\ CursorSpan
    /\ cur.span_tags = ClashTags
    /\ call.env.kind = "return"
    /\ call.env.rc = 1
    /\ TheSpan.tags[DATABASE_TYPE] = "nosql"
    /\ TheSpan.tags[ROWS_PRODUCED] = 1
    /\ TheSpan.tags[ERROR] = FALSE


----------------------------------------------------------------------------
\* Failures of the tracer and of the rowcount attribute.

\* errors raised by the tracer (start_active_span, set_tag) and by reading self.rowcount
TracerError == [cls |-> "TracerError", msg |-> "tracer failed", isException |-> TRUE]

RowcountError == [cls |-> "RowcountError", msg |-> "rowcount failed", isException |-> TRUE]

NoFault == [at |-> "none", key |-> ""]

\* keys whose set_tag may fail
FaultKeys == {DATABASE_TYPE, SPAN_KIND, DATABASE_STATEMENT, "custom", ROWS_PRODUCED, ERROR, "sfx.error.kind"}

\* what fails during a call: nothing, start_active_span, set_tag of one key, or rowcount
Faults ==
    {NoFault, [at |-> "start", key |-> ""], [at |-> "rowcount", key |-> ""]}
    \cup { [at |-> "set_tag", key |-> k] : k \in FaultKeys }

\* the statement of a traced execution that raised instead of taking effect
Fails(ev) == [e |-> "raise", at |-> ev.e, key |-> IF ev.e = "set_tag" THEN ev.k ELSE ""]

\* the statement ev of a traced execution is the one that fails
Hits(ev, fault) ==
    /\ ev.e = fault.at
    /\ ev.e = "set_tag" => ev.k = fault.key

\* position of the first failing statement, 0 if none fails
FirstHit(events, fault) ==
    IF \E i \in 1..Len(events) : Hits(events[i], fault)
    THEN CHOOSE i \in 1..Len(events) :
             /\ Hits(events[i], fault)
             /\ \A j \in 1..(i - 1) : ~Hits(events[j], fault)
    ELSE 0

\* Faulty variant of WithFault: a failure of start_active_span, set_tag or rowcount is
\* swallowed and the traced execution carries on.
WithFault_Swallowed(r, fault) ==
    LET i == FirstHit(r.trace, fault)
    IN  IF i = 0 THEN r
        ELSE [trace |-> SubSeq(r.trace, 1, i - 1) \o <<Fails(r.trace[i])>>
                        \o SubSeq(r.trace, i + 1, Len(r.trace)),
              result |-> r.result]

\* _traced_execution when a statement of it raises: nothing after that statement is
\* executed and its error leaves the call.  start_active_span is outside the with-block,
\* so no span exists when it fails; every other statement is inside it (and none of the
\* tags set before func is inside the try), so the span is finished on the way out.
\* r is the execution without failure.
WithFault(r, fault) ==
    LET i == FirstHit(r.trace, fault)
        e == IF fault.at = "rowcount" THEN RowcountError ELSE TracerError
    IN  IF i = 0 THEN r
        ELSE [trace |-> SubSeq(r.trace, 1, i - 1) \o <<Fails(r.trace[i])>>
                        \o (IF fault.at = "start" THEN <<>> ELSE <<FinishSpan>>),
              result |-> Raised(e)]

\* the statement as the only positional argument, or as the keyword argument query
FaultForms ==
    { [args |-> <<Str(Text_ab_p)>>, kwargs |-> <<>>],
      [args |-> <<>>, kwargs |-> [k \in {"query"} |-> Str(Text_ab_p)]] }

\* cursor.execute / executemany / callproc with a tracer or rowcount that may fail
FaultyCursorCall(op) ==
    /\ call.op = "idle"
    /\ cur.exists
    /\ \E form \in FaultForms, env \in CursorEnvs, fault \in Faults :
         LET r == WithFault(CursorOp(variant, cur, op, form.args, form.kwargs, env), fault)
         IN  /\ call' = [op |-> op, args |-> form.args, kwargs |-> form.kwargs,
                         env |-> env, exc |-> NoExc, fault |-> fault]
             /\ trace' = r.trace
             /\ result' = r.result
             /\ rowcount' = IF Calls(r.trace) # <<>> /\ env.kind = "return" THEN env.rc ELSE rowcount
             /\ active' = active \o OpenSpans(r.trace)
    /\ blockOutcome' = NoResult
    /\ UNCHANGED <<variant, conn, cur, earlier, scope, cacheVars>>

FaultyExecute == FaultyCursorCall("execute")

FaultyExecutemany == FaultyCursorCall("executemany")

FaultyCallproc == FaultyCursorCall("callproc")

\* connection.commit() with a tracer that may fail
FaultyCommit ==
    /\ call.op = "idle"
    /\ \E env \in ConnEnvs, fault \in Faults :
         LET r == WithFault(Commit(variant, conn, env), fault)
         IN  /\ call' = [op |-> "commit", args |-> <<>>, kwargs |-> <<>>,
                         env |-> env, exc |-> NoExc, fault |-> fault]
             /\ trace' = r.trace
             /\ result' = r.result
             /\ active' = active \o OpenSpans(r.trace)
    /\ blockOutcome' = NoResult
    /\ UNCHANGED <<variant, conn, cur, earlier, rowcount, scope, cacheVars>>

\* connection.rollback() with a tracer that may fail
FaultyRollback ==
    /\ call.op = "idle"
    /\ \E env \in ConnEnvs, fault \in Faults :
         LET r == WithFault(Rollback(variant, conn, env), fault)
         IN  /\ call' = [op |-> "rollback", args |-> <<>>, kwargs |-> <<>>,
                         env |-> env, exc |-> NoExc, fault |-> fault]
             /\ trace' = r.trace
             /\ result' = r.result
             /\ active' = active \o OpenSpans(r.trace)
    /\ blockOutcome' = NoResult
    /\ UNCHANGED <<variant, conn, cur, earlier, rowcount, scope, cacheVars>>

NextFaults ==
    \/ CallCursor
    \/ FaultyExecute
    \/ FaultyExecutemany
    \/ FaultyCallproc
    \/ FaultyCommit
    \/ FaultyRollback
    \/ Observe

SpecFaults == Init /\ [][NextFaults]_vars

\* the last call was made with a tracer or rowcount that may fail
FaultyCall == call.op # "idle" /\ "fault" \in DOMAIN call

\* the arguments _traced_execution received
TracedArgs == IF variant = "proxy" THEN call.args ELSE <<Self>> \o call.args

\* a traced call that reaches start_active_span: the span name was computed
ReachesTracer ==
    \/ TracedConnCall
    \/ TracedCursorCall /\ _get_statement(variant, TracedArgs).ok

\* keys of the tags set before func is called
KeysBeforeCall ==
    {DATABASE_TYPE, SPAN_KIND}
    \cup (IF IsCursorCall THEN {DATABASE_STATEMENT} ELSE {})
    \cup StaticKeys(CallerTags)

\* the tracer fails in start_active_span or in a set_tag that precedes the call of func
FailsBeforeCall ==
    /\ ReachesTracer
    /\ \/ call.fault.at = "start"
       \/ call.fault.at = "set_tag" /\ call.fault.key \in KeysBeforeCall

\* reading self.rowcount or setting db.rows_produced fails after func returned
FailsAfterReturn ==
    /\ TracedCursorCall
    /\ _get_statement(variant, TracedArgs).ok
    /\ call.env.kind = "return"
    /\ ~FailsBeforeCall
    /\ \/ call.fault.at = "rowcount"
       \/ call.fault.at = "set_tag" /\ call.fault.key = ROWS_PRODUCED

IsRaise(ev) == ev.e = "raise"

IsStart(ev) == ev.e = "start"

\* C30: if start_active_span or a set_tag that precedes the underlying call fails, the
\* underlying operation is not invoked and the tracer's error reaches the caller (no
\* span exists when start_active_span failed); if computing the span name fails, no
\* span is started and the operation is not invoked; if reading rowcount or setting
\* db.rows_produced fails, the operation has been invoked exactly once and the caller
\* receives that failure, not the value the operation returned.
C30_TracerAndRowcountFailures ==
    FaultyCall
    => /\ FailsBeforeCall
            => /\ Calls(trace) = <<>>
               /\ result = Raised(TracerError)
               /\ Len(SelectSeq(trace, IsRaise)) = 1
               /\ call.fault.at = "start" => SelectSeq(trace, IsStart) = <<>>
       /\ (TracedCursorCall /\ ~_get_statement(variant, TracedArgs).ok)
            => /\ SelectSeq(trace, IsStart) = <<>>
               /\ Calls(trace) = <<>>
               /\ result = Raised(_get_statement(variant, TracedArgs).exc)
       /\ FailsAfterReturn
            => /\ Len(Calls(trace)) = 1
               /\ result = Raised(IF call.fault.at = "rowcount" THEN RowcountError ELSE TracerError)
               /\ result # Outcome(call.env)
               /\ Len(SelectSeq(trace, IsRaise)) = 1

\* an execute whose static tag custom failed to be set: a span was started and
\* finished, the driver was not reached
C30_Witness ==
    /\ FaultyCall
    /\ call.op = "execute"
    /\ FailsBeforeCall
    /\ call.fault = [at |-> "set_tag", key |-> "custom"]
    /\ Len(Spans(trace)) = 1
    /\ Calls(trace) = <<>>
    /\ result = Raised(TracerError)

\* an execute whose rowcount could not be read after the driver returned
C30_WitnessRowcount ==
    /\ FaultyCall
    /\ FailsAfterReturn
    /\ call.fault.at = "rowcount"
    /\ Len(Calls(trace)) = 1
    /\ result = Raised(RowcountError)

====
